---- MODULE Spec2Model ----
(***************************************************************************)
(* State-machine model of the ai-travel-agent workflow engine: the node    *)
(* graph of graph.py and the nodes it wires (orchestrator, executor,       *)
(* issue triage, evaluate_step, planners and the linear tail).  One action *)
(* is one node execution followed by the router of its outgoing edge.      *)
(* Keyword arguments that only carry observability objects (telemetry,     *)
(* fault_injector, metrics) are not part of the modelled state.            *)
(***************************************************************************)
EXTENDS Integers, Sequences, FiniteSets, TLC

(* ---------------------------------------------------------------------- *)
(* Bounds of the exploration                                               *)
(* ---------------------------------------------------------------------- *)
MaxItems == 2
MaxItersBound == 3
MaxRetriesBound == 1
MaxDests == 2
MaxOverrides == 2
MaxRounds == 2
MaxEvents == 4
MaxBuffer == 2
MaxCalls == 4
MaxSections == 2
MaxItersChecked == 100
MaxTickIters == 10
MaxSteps == 3
MaxOverCap == 1
MaxNodeRuns == 5

(* ---------------------------------------------------------------------- *)
(* Program constants                                                       *)
(* ---------------------------------------------------------------------- *)
PLAN_ITEM_CAP == 12
QUESTION_CAP == 4

ALLOWED_STEP_TYPES == {"RETRIEVE_CONTEXT", "TOOL_CALL", "SYNTHESIZE"}

ALLOWED_TOOLS ==
    {"flights_search_links", "hotels_search_links", "things_to_do_links",
     "weather_summary", "distance_and_time"}

MAJOR_TOOLS == {"flights_search_links", "hotels_search_links"}

CoreFields == {"destination", "start_date", "end_date", "origin"}

(* What the planning LLM may put in one plan item: allowed and disallowed  *)
(* step types, allowed and disallowed tool names, with or without a        *)
(* destination argument (dest = 0: no string destination).                 *)
LLMItems ==
    {[step_type |-> t, tool_name |-> "", dest |-> 0] :
        t \in {"RETRIEVE_CONTEXT", "SYNTHESIZE", "ASK_USER"}}
    \cup
    {[step_type |-> "TOOL_CALL", tool_name |-> "flights_search_links", dest |-> d] : d \in 0..1}
    \cup
    {[step_type |-> "TOOL_CALL", tool_name |-> n, dest |-> 1] :
        n \in {"weather_summary", "book_flight"}}

RECURSIVE SeqsUpTo(_, _)
SeqsUpTo(S, n) ==
    IF n = 0 THEN {<<>>}
    ELSE LET shorter == SeqsUpTo(S, n - 1)
         IN  shorter \cup {Append(s, x) : s \in {q \in shorter : Len(q) = n - 1}, x \in S}

(* ---------------------------------------------------------------------- *)
(* State model (agents/state.py)                                           *)
(* ---------------------------------------------------------------------- *)
EmptyStep ==
    [id |-> 0, step_type |-> "", tool_name |-> "", dest |-> 0, status |-> "", notes |-> 0]

NodeStep(t) == [EmptyStep EXCEPT !.step_type = t]

PlanStep(i, t, n, d) ==
    [id |-> i, step_type |-> t, tool_name |-> n, dest |-> d, status |-> "pending", notes |-> 0]

AbsentIssue ==
    [kind |-> "absent", severity |-> "", node |-> "", step_id |-> 0, tool_name |-> "",
     message |-> "", attempts |-> 0]

EmptyIssue == [AbsentIssue EXCEPT !.kind = ""]

Issue(k, sev, nd, sid, tn, msg, att) ==
    [kind |-> k, severity |-> sev, node |-> nd, step_id |-> sid, tool_name |-> tn,
     message |-> msg, attempts |-> att]

(* TripConstraints.  A text value is a tag that tells where it came from:  *)
(* "L" the LLM's JSON, "H" _heuristic_extract, "A" an answer or override;  *)
(* "" stands for None and for the empty string, which the code's           *)
(* truthiness tests treat alike.  Of the optional fields budget_usd is     *)
(* modelled; travelers, interests and pace go through the same three       *)
(* stages and are read by no question.                                     *)
Fields == {"origin", "destinations", "start_date", "end_date", "budget_usd"}

TextFields == {"origin", "start_date", "end_date"}

TripConstraints ==
    [origin |-> "", destinations |-> <<>>, start_date |-> "", end_date |-> "",
     budget_usd |-> "", notes |-> <<>>]

(* ---------------------------------------------------------------------- *)
(* The answer text and what the responder does to it                       *)
(* (agents/nodes/responder.py)                                             *)
(* ---------------------------------------------------------------------- *)
(* A text is the sequence of its section blocks: the lines before the      *)
(* first heading (title "") and then each heading with the lines up to the *)
(* next one. style is "atx" for a "## Title" heading and "bold" for a      *)
(* "**Title**" line. A line is named by what the responder tests in it:    *)
(* "text", "na" (says "not available"), "price" (holds a currency token),  *)
(* "links" (holds a URL), DISCLAIMER, and the lines the responder writes.  *)
DISCLAIMER == "disclaimer"

Block(title, style, body) == [title |-> title, style |-> style, body |-> body]

REQUIRED_SECTIONS ==
    <<"Summary", "Flights", "Lodging", "Day-by-day", "Transit", "Weather", "Budget", "Calendar">>

(* "# Trip plan\n\n## Summary\nPlanning trip to {destination}.\n"          *)
DefaultAnswer == <<Block("", "atx", <<"text">>), Block("Summary", "atx", <<"text">>)>>

(* What the synthesizing LLM returns in Spec: a text with a summary only.  *)
SynthesizedAnswers == {<<Block("", "atx", <<"text">>), Block("Summary", "atx", <<"text">>)>>}

HasLine(a, l) == \E i \in 1..Len(a) : \E j \in 1..Len(a[i].body) : a[i].body[j] = l

CountLine(body, l) == Cardinality({j \in 1..Len(body) : body[j] = l})

RECURSIVE Occurrences(_, _)
Occurrences(a, l) ==
    IF a = <<>> THEN 0 ELSE CountLine(Head(a).body, l) + Occurrences(Tail(a), l)

RemoveLine(a, l) ==
    [i \in 1..Len(a) |-> [a[i] EXCEPT !.body = SelectSeq(@, LAMBDA x : x # l)]]

(* answer += line: the line lands in the last block of the text.           *)
AppendLine(a, l) == [a EXCEPT ![Len(a)].body = Append(@, l)]

_normalize_headings(a) == [i \in 1..Len(a) |-> [a[i] EXCEPT !.style = "atx"]]

(* The first "## {title}" block, 0 when there is none.                     *)
_section_block(a, title) ==
    LET found == {i \in 1..Len(a) : a[i].title = title /\ a[i].style = "atx"} IN
    IF found = {} THEN 0 ELSE CHOOSE i \in found : \A j \in found : i <= j

_get_section_body(a, title) ==
    IF _section_block(a, title) = 0 THEN <<>> ELSE a[_section_block(a, title)].body

_set_section(a, title, body) ==
    IF _section_block(a, title) = 0
    THEN Append(a, Block(title, "atx", body))
    ELSE [a EXCEPT ![_section_block(a, title)].body = body]

Mentions(a, title) == \E i \in 1..Len(a) : a[i].title = title

NotAvailable(body) == \E j \in 1..Len(body) : body[j] = "na"

_has_url(body) == \E j \in 1..Len(body) : body[j] \in {"links", "summary_links"}

(* The model's constraints carry no travelers: constraints.get("travelers") *)
(* is None.                                                                *)
ResponderMissing(c) ==
    {"travelers"}
        \cup (IF c.destinations = <<>> THEN {"destination"} ELSE {})
        \cup (IF c.start_date = "" THEN {"start date"} ELSE {})
        \cup (IF c.end_date = "" THEN {"end date"} ELSE {})
        \cup (IF c.origin = "" THEN {"origin"} ELSE {})
        \cup (IF c.budget_usd = "" THEN {"budget"} ELSE {})

(* Lines 173-181: the "- {token}: not provided" lines, one "missing" line  *)
(* here, are appended to the end of the text unless it names the tokens.   *)
WithAssumptions(a, c) ==
    LET b == IF Mentions(a, "Assumptions") THEN a
             ELSE Append(a, Block("Assumptions", "atx", <<>>)) IN
    IF ResponderMissing(c) # {} /\ ~HasLine(b, "missing") THEN AppendLine(b, "missing") ELSE b

RECURSIVE EnsureSections(_, _)
EnsureSections(a, i) ==
    IF i > Len(REQUIRED_SECTIONS) THEN a
    ELSE CHOOSE out \in
             {EnsureSections(b, i + 1) :
                 b \in {IF Mentions(a, REQUIRED_SECTIONS[i]) THEN a
                        ELSE Append(a, Block(REQUIRED_SECTIONS[i], "atx", <<>>))}} : TRUE

(* Lines 231-306: a section of search links, from the tool results when    *)
(* the tool has any, else from _build_default_links when the constraints   *)
(* allow them, else a hint unless the body already holds a URL.            *)
LinkSection(a, title, has_entries, has_defaults) ==
    IF has_entries THEN _set_section(a, title, <<"links">>)
    ELSE IF has_defaults THEN _set_section(a, title, <<"links">>)
    ELSE IF NotAvailable(_get_section_body(a, title)) \/ ~_has_url(_get_section_body(a, title))
    THEN _set_section(a, title, <<"hint">>)
    ELSE a

(* A section that is rewritten when it is empty or says "not available".   *)
FillSection(a, title, body) ==
    IF _get_section_body(a, title) = <<>> \/ NotAvailable(_get_section_body(a, title))
    THEN _set_section(a, title, body)
    ELSE a

(* Line 410: every currency token becomes "[price omitted]".               *)
StripCurrency(a) ==
    [i \in 1..Len(a) |->
        [a[i] EXCEPT !.body = [j \in 1..Len(@) |-> IF @[j] = "price" THEN "omitted" ELSE @[j]]]]

ToolNamesOf(results) == {results[i].tool_name : i \in 1..Len(results)}

Respond(final, c, tools) ==
    LET t1 == {IF final = <<>> THEN DefaultAnswer ELSE final}
        t2 == {AppendLine(RemoveLine(a, DISCLAIMER), DISCLAIMER) : a \in t1}
        t3 == {WithAssumptions(a, c) : a \in {_normalize_headings(b) : b \in t2}}
        t4 == {EnsureSections(a, 1) : a \in t3}
        t5 == {LinkSection(a, "Flights", "flights_search_links" \in tools,
                           c.origin # "" /\ c.start_date # "") : a \in t4}
        t6 == {LinkSection(a, "Lodging", "hotels_search_links" \in tools,
                           c.start_date # "" /\ c.end_date # "") : a \in t5}
        t7 == {FillSection(a, "Things to do", <<"links">>) : a \in t6}
        t8 == {FillSection(a, "Weather",
                           IF "weather_summary" \in tools THEN <<"summary_links">>
                           ELSE <<"links">>) : a \in t7}
        t9 == {FillSection(a, "Transit", <<"hint">>) : a \in t8}
        t10 == {FillSection(a, "Day-by-day", <<"skeleton">>) : a \in t9}
        t11 == {FillSection(a, "Budget", IF c.budget_usd # "" THEN <<"price", "hint">>
                                         ELSE <<"hint">>) : a \in t10}
        t12 == {FillSection(a, "Calendar", <<"hint">>) : a \in t11}
    IN CHOOSE out \in {StripCurrency(a) : a \in t12} : TRUE

(* state["constraint_overrides"]: present tells whether the key exists,    *)
(* keys are the keys of the dict, and a key's raw value is "A" or " A "    *)
(* (text, the second with blanks around it), " " (blank text) or "#" (an   *)
(* object of another type; for budget_usd one float() rejects).            *)
NoOverrides ==
    [present |-> FALSE, keys |-> {}, origin |-> "", destinations |-> <<>>, start_date |-> "",
     end_date |-> "", budget_usd |-> ""]

EmptyOverrides == [NoOverrides EXCEPT !.present = TRUE]

(* state["grounded_places"]: what a place was grounded to ("none": None), *)
(* and the dict of the validator before it has grounded anything.          *)
Grounded(kind, raw) == [kind |-> kind, of |-> raw]

NoGrounding == [origin |-> Grounded("none", ""), destinations |-> <<>>]

(* state["pending_fixup"] and state["pending_disambiguation"].  No node    *)
(* writes state["pending_conflict"], which is therefore always absent.     *)
NoPending == [kind |-> "absent", field |-> ""]

(* state["user_query"] as the sequence of its parts.                       *)
RequestPart(kind) == [kind |-> "request", question |-> "", text |-> kind]

HeaderPart == [kind |-> "header", question |-> "", text |-> "Additional details:"]

AnswerPart(q, a) == [kind |-> "answer", question |-> q, text |-> a]

VARIABLES
    pc,                 \* node the graph runtime executes next ("__end__", "__error__" when stopped)
    current_node,       \* state["current_node"], set by instrument_node
    max_iters,          \* settings.max_graph_iters
    max_tool_retries,   \* settings.max_tool_retries
    has_memory,         \* whether the executor was given a memory store
    missing,            \* core fields missing from state["constraints"]
    ndests,             \* len(constraints.destinations)
    plan,
    current_step,
    current_step_index,
    loop_iterations,
    termination_reason,
    needs_user_input,
    clarifying_questions,
    issues,
    pending_issue,
    needs_triage,
    validation_warnings,
    tool_results,
    timeout_risk,       \* signals["timeout_risk"]
    planning_error,     \* signals["planning_error"]
    final_answer,       \* TRUE once state["final_answer"] is set
    answer,             \* the text of state["final_answer"], as its section blocks
    attempts,           \* the executor's local attempts counter when it returns
    tool_call_log,      \* what each tools.call of that executor pass did, in order
    llm_call_log,       \* what each llm.invoke_text of that executor pass did, in order
    node_error,         \* name of the node whose exception stopped the run, "" if none
    graph_steps,        \* nodes the graph runtime has started in this invocation
    evaluation,         \* state["evaluation"]["overall_status"], "" before the final evaluation
    driver,             \* which driver invoked the graph: "cli" (chat) or "experiments" (_run_single)
    eval_threshold,     \* settings.eval_threshold, in tenths of a rubric point
    stream_fallback,    \* TRUE once chat's _stream_or_invoke fell back from stream to invoke
    metrics_record,     \* status of the final metrics record, "" while none is written
    hard_gates,         \* evaluate_final: the five hard gates of the answer under evaluation
    rubric_scores,      \* evaluate_final: its five rubric scores, in tenths of a point
    eval_result,        \* evaluate_final: the EvaluationResult it returned
    user_query,         \* state["user_query"]
    typed_query,        \* chat's local user_query: the request as it was typed
    home_origin,        \* the "Home origin: ..." profile the memory store holds, "" for none
    grounded_places,    \* state["grounded_places"]; only PlacesSpec follows what the validator stores in it
    context_hits,       \* the home origin in state["context_hits"], "" for none
    constraints,        \* state["constraints"]
    constraint_overrides,
    pending_fixup,
    pending_disambiguation,
    chat_round,         \* clarification rounds chat() has been through
    telemetry_mode,     \* TelemetryController.mode
    buffer_size,        \* TelemetryController.buffer_size
    _buffer,            \* TelemetryController._buffer
    _escalated,         \* TelemetryController._escalated
    trace_jsonl,        \* the lines of logs/trace.jsonl
    events_traced,      \* calls of TelemetryController.trace so far
    _global_failure_tracker, \* run id of the tracker set_failure_tracker installed, "" for None
    failure_count,      \* FailureTracker.failure_count of that tracker
    failure_log,        \* lines of logs/failures_{run_id}.jsonl, by run id
    combined_log,       \* lines of logs/combined_{run_id}.jsonl, by run id
    log_calls,          \* calls of the logging functions so far
    last_call,          \* the latest of them and the run id it was made for
    node_events,        \* the events instrument_node handed to log_event, in order
    graph_node_transitions, \* the counter of that name in the MetricsCollector
    graph_node_errors   \* the counter of that name in the MetricsCollector

vars ==
    <<pc, current_node, max_iters, max_tool_retries, has_memory, missing, ndests,
      plan, current_step, current_step_index, loop_iterations, termination_reason,
      needs_user_input, clarifying_questions, issues, pending_issue, needs_triage,
      validation_warnings, tool_results, timeout_risk, planning_error, final_answer, answer,
      attempts, tool_call_log, llm_call_log, node_error, graph_steps, evaluation, driver,
      eval_threshold,
      stream_fallback, metrics_record, hard_gates, rubric_scores, eval_result,
      user_query, typed_query, home_origin, grounded_places, context_hits, constraints, constraint_overrides,
      pending_fixup,
      pending_disambiguation, chat_round, telemetry_mode, buffer_size, _buffer, _escalated,
      trace_jsonl, events_traced, _global_failure_tracker, failure_count, failure_log,
      combined_log, log_calls, last_call, node_events, graph_node_transitions,
      graph_node_errors>>

settingsVars == <<max_iters, max_tool_retries, has_memory, driver, eval_threshold>>

driverVars == <<stream_fallback, metrics_record>>

evalFnVars == <<hard_gates, rubric_scores, eval_result>>

(* The request and what the nodes before the planner make of it.          *)
intakeVars ==
    <<user_query, typed_query, home_origin, grounded_places, context_hits, constraints, constraint_overrides,
      pending_fixup,
      pending_disambiguation, chat_round>>

(* The telemetry controller of the run.                                   *)
telemetryVars ==
    <<telemetry_mode, buffer_size, _buffer, _escalated, trace_jsonl, events_traced>>

(* The observability objects, which the actions of the graph and of the    *)
(* drivers leave as they are.                                              *)
trackerVars ==
    <<_global_failure_tracker, failure_count, failure_log, combined_log, log_calls, last_call>>

(* What instrument_node logs and counts.                                   *)
nodeMetricsVars == <<node_events, graph_node_transitions, graph_node_errors>>

observabilityVars == <<telemetryVars, trackerVars, nodeMetricsVars>>

(* What a graph node after the validator that neither evaluates the answer *)
(* nor belongs to a driver leaves alone.                                   *)
loopFrame == <<settingsVars, observabilityVars, driverVars, evalFnVars, evaluation, intakeVars>>

Drivers == {"cli", "experiments"}

DEFAULT_EVAL_THRESHOLD == 35

DEFAULT_BUFFER_SIZE == 50

HardGateNames ==
    {"constraint_completeness", "no_fabricated_real_time_facts", "link_validity_format",
     "calendar_export_correctness", "safety_clarity_disclaimer"}

RubricNames == {"relevance", "feasibility", "completeness", "specificity", "coherence"}

NoGates == [g \in HardGateNames |-> FALSE]

NoScores == [r \in RubricNames |-> 0]

NoResult ==
    [hard_gates |-> NoGates, rubric_scores |-> NoScores, overall_status |-> "", notes |-> <<>>]

(* The state a driver hands to the graph: only run_id, user_id, messages   *)
(* and user_query are set, every other key is absent.                      *)
GraphInit ==
    /\ pc = "context_controller"
    /\ current_node = ""
    /\ missing = CoreFields
    /\ ndests = 0
    /\ plan = <<>>
    /\ current_step = EmptyStep
    /\ current_step_index = 0
    /\ loop_iterations = 0
    /\ termination_reason = ""
    /\ needs_user_input = FALSE
    /\ clarifying_questions = <<>>
    /\ issues = <<>>
    /\ pending_issue = AbsentIssue
    /\ needs_triage = FALSE
    /\ validation_warnings = <<>>
    /\ tool_results = <<>>
    /\ timeout_risk = FALSE
    /\ planning_error = FALSE
    /\ final_answer = FALSE
    /\ answer = <<>>
    /\ attempts = 0
    /\ tool_call_log = <<>>
    /\ llm_call_log = <<>>
    /\ node_error = ""
    /\ graph_steps = 0
    /\ evaluation = ""
    /\ stream_fallback = FALSE
    /\ metrics_record = ""
    /\ user_query = typed_query
    /\ context_hits = ""
    /\ constraints = TripConstraints
    /\ pending_fixup = NoPending
    /\ pending_disambiguation = NoPending
    /\ chat_round = 0

(* A TelemetryController as its constructor leaves it.                     *)
TelemetryController(mode, size) ==
    /\ telemetry_mode = mode
    /\ buffer_size = size
    /\ _buffer = <<>>
    /\ _escalated = FALSE
    /\ trace_jsonl = <<>>
    /\ events_traced = 0

(* The observability objects while nothing calls them.                     *)
RunIds == {"r1", "r2"}

NoCall == [op |-> "", run |-> ""]

(* No tracker installed and no log file written yet.                       *)
NoFailureTracker ==
    /\ _global_failure_tracker = ""
    /\ failure_count = 0
    /\ failure_log = [r \in RunIds |-> <<>>]
    /\ combined_log = [r \in RunIds |-> <<>>]
    /\ log_calls = 0
    /\ last_call = NoCall

(* No node has run under instrument_node yet.                              *)
NoNodeRun ==
    /\ node_events = <<>>
    /\ graph_node_transitions = 0
    /\ graph_node_errors = 0

ObservabilityIdle ==
    /\ TelemetryController("minimal", DEFAULT_BUFFER_SIZE)
    /\ NoFailureTracker
    /\ NoNodeRun

(* Spec follows one invocation of the graph on a request in free prose,    *)
(* which names no budget and in which the regular expressions of           *)
(* _heuristic_extract find nothing, handed over without overrides.         *)
Init ==
    /\ home_origin = ""
    /\ grounded_places = NoGrounding
    /\ typed_query = <<RequestPart("plain")>>
    /\ constraint_overrides = NoOverrides
    /\ GraphInit
    /\ ObservabilityIdle
    /\ max_iters \in 1..MaxItersBound
    /\ max_tool_retries \in 0..MaxRetriesBound
    /\ has_memory \in BOOLEAN
    /\ driver \in Drivers
    /\ eval_threshold = DEFAULT_EVAL_THRESHOLD
    /\ hard_gates = NoGates
    /\ rubric_scores = NoScores
    /\ eval_result = NoResult

(* ---------------------------------------------------------------------- *)
(* Graph runtime helpers (graph.py, agents/nodes/utils.py)                 *)
(* ---------------------------------------------------------------------- *)
(* instrument_node: a node that raises stops the graph; what the node      *)
(* wrote into the state before raising stays written.                      *)
Raised(name) ==
    /\ pc' = "__error__"
    /\ current_node' = name
    /\ node_error' = name
    /\ graph_steps' = graph_steps + 1

Returned(name, next) ==
    /\ pc' = next
    /\ current_node' = name
    /\ node_error' = node_error
    /\ graph_steps' = graph_steps + 1

(* cli.py:330, the limit chat() hands to the graph runtime.                *)
recursion_limit_is_max_iters(m) == m

recursion_limit(m) == IF m * 10 > 200 THEN m * 10 ELSE 200

_intent_route(nui) == IF nui THEN "__end__" ELSE "validator"

_validator_route(nui) == IF nui THEN "__end__" ELSE "brain_planner"

_orch_route(reason) == IF reason \in {"finalized", "max_iters"} THEN "responder" ELSE "executor"

_exec_route_no_triage(nt) == "evaluate_step"

_exec_route_always_triage(nt) == "issue_triage"

_exec_route(nt) == IF nt THEN "issue_triage" ELSE "evaluate_step"

_triage_route_inverted(nui) == IF nui THEN "orchestrator" ELSE "__end__"

_triage_route(nui) == IF nui THEN "__end__" ELSE "orchestrator"

Min(a, b) == IF a <= b THEN a ELSE b

(* ---------------------------------------------------------------------- *)
(* Nodes before the loop                                                   *)
(* ---------------------------------------------------------------------- *)
(* memory.search(query, k=5): the hits hold the saved home origin or, when  *)
(* other documents rank before it, do not.                                 *)
MemorySearch(saved) == {saved, ""}

context_controller ==
    /\ pc = "context_controller"
    /\ current_step' = NodeStep("RETRIEVE_CONTEXT")
    /\ \/ /\ Returned("context_controller", "intent_parser")
          /\ context_hits' \in MemorySearch(home_origin)
       \/ /\ Raised("context_controller")       \* memory.search raises
          /\ UNCHANGED context_hits
    /\ UNCHANGED <<settingsVars, observabilityVars, driverVars, evalFnVars, evaluation,
                   user_query, typed_query, home_origin, grounded_places, constraints, constraint_overrides,
                   pending_fixup, pending_disambiguation, chat_round, missing, ndests, plan, current_step_index,
                   loop_iterations, termination_reason, needs_user_input, clarifying_questions,
                   issues, pending_issue, needs_triage, validation_warnings, tool_results,
                   timeout_risk, planning_error, final_answer, answer, attempts, tool_call_log, llm_call_log>>

(* The requests explored.  A "plain" request is free prose that names no   *)
(* budget and in which the regular expressions find nothing; a "detailed"  *)
(* request spells out places, ISO dates and a budget.                      *)
RequestKinds == {"plain", "detailed"}

Detailed(q) == q[1].text = "detailed"

HasDetails(q) == \E i \in 1..Len(q) : q[i].kind = "header"

OneOrNone(present, v) == IF present THEN {"", v} ELSE {""}

(* llm.invoke_text, _extract_json_object and model_validate: whatever the  *)
(* LLM answers, the result is a TripConstraints; unusable JSON gives the   *)
(* defaults.                                                               *)
LLMReads(q) ==
    {[TripConstraints EXCEPT !.origin = o, !.destinations = [i \in 1..n |-> "L"],
                             !.start_date = s, !.end_date = e, !.budget_usd = b] :
        o \in {"", "L"}, n \in 0..MaxDests, s \in {"", "L"}, e \in {"", "L"},
        b \in OneOrNone(Detailed(q), "L")}

(* _heuristic_extract: the first ISO date of the text is the start date    *)
(* and the second the end date; one destination at most.  Appended answer  *)
(* lines repeat the question, so they can match the place patterns too.    *)
HeurReads(q) ==
    {h \in {[TripConstraints EXCEPT !.origin = o, !.destinations = d,
                                    !.start_date = s, !.end_date = e, !.budget_usd = b] :
               o \in OneOrNone(Detailed(q) \/ HasDetails(q), "H"),
               d \in IF Detailed(q) \/ HasDetails(q) THEN {<<>>, <<"H">>} ELSE {<<>>},
               s \in OneOrNone(Detailed(q) \/ HasDetails(q), "H"),
               e \in OneOrNone(Detailed(q) \/ HasDetails(q), "H"),
               b \in OneOrNone(Detailed(q), "H")} :
        h.end_date # "" => h.start_date # ""}

FilledNote(what) == "Filled " \o what \o " from user text (heuristic)."

HeuristicFill(c, heur) ==
    LET c1 == IF c.destinations = <<>> /\ heur.destinations # <<>>
              THEN [c EXCEPT !.destinations = heur.destinations,
                             !.notes = Append(@, FilledNote("destination"))]
              ELSE c
        c2 == IF c1.origin = "" /\ heur.origin # ""
              THEN [c1 EXCEPT !.origin = heur.origin,
                              !.notes = Append(@, FilledNote("origin"))]
              ELSE c1
        c3 == IF c2.start_date = "" /\ heur.start_date # ""
              THEN [c2 EXCEPT !.start_date = heur.start_date,
                              !.notes = Append(@, FilledNote("start_date"))]
              ELSE c2
        c4 == IF c3.end_date = "" /\ heur.end_date # ""
              THEN [c3 EXCEPT !.end_date = heur.end_date,
                              !.notes = Append(@, FilledNote("end_date"))]
              ELSE c3
    IN  IF c4.budget_usd = "" /\ heur.budget_usd # ""
        THEN [c4 EXCEPT !.budget_usd = heur.budget_usd,
                        !.notes = Append(@, FilledNote("budget"))]
        ELSE c4

(* str.strip on the raw values of the model.                               *)
Strip(s) == IF s = " A " THEN "A" ELSE IF s = " " THEN "" ELSE s

IsStr(v) == v # "#"

(* float(v) succeeds: a number or numeric text, blanks around it allowed.  *)
Floatable(v) == v \in {"A", " A "}

RECURSIVE Cleaned(_)
Cleaned(ds) ==
    IF ds = <<>> THEN <<>>
    ELSE IF Strip(Head(ds)) # "" THEN <<Strip(Head(ds))>> \o Cleaned(Tail(ds))
    ELSE Cleaned(Tail(ds))

OverrideNote(field) == "Applied manual override for " \o field \o "."

TextOverride_if_missing(c, ov, field) ==
    IF field \in ov.keys /\ IsStr(ov[field]) /\ Strip(ov[field]) # "" /\ c[field] = ""
    THEN [c EXCEPT ![field] = Strip(ov[field]), !.notes = Append(@, OverrideNote(field))]
    ELSE c

TextOverride(c, ov, field) ==
    IF field \in ov.keys /\ IsStr(ov[field]) /\ Strip(ov[field]) # ""
    THEN [c EXCEPT ![field] = Strip(ov[field]), !.notes = Append(@, OverrideNote(field))]
    ELSE c

ApplyOverrides(c, ov) ==
    IF ~(ov.present /\ ov.keys # {}) THEN c
    ELSE
    LET c1 == TextOverride(c, ov, "origin")
        c2 == IF "destinations" \in ov.keys /\ Cleaned(ov.destinations) # <<>>
              THEN [c1 EXCEPT !.destinations = Cleaned(ov.destinations),
                              !.notes = Append(@, OverrideNote("destinations"))]
              ELSE c1
        c3 == TextOverride(c2, ov, "start_date")
        c4 == TextOverride(c3, ov, "end_date")
    IN  IF "budget_usd" \in ov.keys /\ Floatable(ov.budget_usd)
        THEN [c4 EXCEPT !.budget_usd = Strip(ov.budget_usd),
                        !.notes = Append(@, OverrideNote("budget_usd"))]
        ELSE c4

(* Overrides are cleared only on the path that applies them, that is when  *)
(* the state holds a non-empty dict.                                       *)
ClearedOverrides(ov) == IF ov.present /\ ov.keys # {} THEN EmptyOverrides ELSE ov

Q_DESTINATION == "Where do you want to travel (destination city/country)?"

Q_START_DATE == "What is your start date? (YYYY-MM-DD)"

Q_END_DATE == "What is your end date? (YYYY-MM-DD)"

Q_ORIGIN == "What city/airport are you departing from?"

AskIf(cond, q) == IF cond THEN <<q>> ELSE <<>>

_clarifying_questions_budget(c) ==
    AskIf(c.destinations = <<>>, Q_DESTINATION) \o AskIf(c.start_date = "", Q_START_DATE)
    \o AskIf(c.end_date = "", Q_END_DATE) \o AskIf(c.budget_usd = "", Q_ORIGIN)

_clarifying_questions(c) ==
    AskIf(c.destinations = <<>>, Q_DESTINATION) \o AskIf(c.start_date = "", Q_START_DATE)
    \o AskIf(c.end_date = "", Q_END_DATE) \o AskIf(c.origin = "", Q_ORIGIN)

(* The core fields a constraints record lacks, by the names of CoreFields. *)
MissingCore(c) ==
    {f \in CoreFields : \/ f = "destination" /\ c.destinations = <<>>
                        \/ f \in TextFields /\ c[f] = ""}

Take(s, n) == SubSeq(s, 1, Min(Len(s), n))

AskUser_flag_only(qs) ==
    /\ needs_user_input' = TRUE
    /\ clarifying_questions' = qs
    /\ termination_reason' = termination_reason

(* What every asking branch writes: the flag, the questions, the reason.   *)
AskUser(qs) ==
    /\ needs_user_input' = TRUE
    /\ clarifying_questions' = qs
    /\ termination_reason' = "asked_user"

intent_parser ==
    /\ pc = "intent_parser"
    /\ current_step' = NodeStep("INTENT_PARSE")
    /\ \/ /\ Raised("intent_parser")            \* llm.invoke_text raises
          /\ UNCHANGED <<missing, ndests, needs_user_input, clarifying_questions,
                         termination_reason, constraints, constraint_overrides>>
       \/ \E parsed \in LLMReads(user_query), heur \in HeurReads(user_query) :
             LET c == ApplyOverrides(HeuristicFill(parsed, heur), constraint_overrides)
                 qs == _clarifying_questions(c)
             IN  /\ constraint_overrides' = ClearedOverrides(constraint_overrides)
                 /\ constraints' = c
                 /\ missing' = MissingCore(c)
                 /\ ndests' = Len(c.destinations)
                 /\ IF qs # <<>>
                    THEN AskUser(Take(qs, QUESTION_CAP))
                    ELSE /\ needs_user_input' = FALSE
                         /\ clarifying_questions' = <<>>
                         /\ termination_reason' = termination_reason
                 /\ Returned("intent_parser", _intent_route(needs_user_input'))
    /\ UNCHANGED <<settingsVars, observabilityVars, driverVars, evalFnVars, evaluation,
                   user_query, typed_query, home_origin, grounded_places, context_hits,
                   pending_fixup, pending_disambiguation, chat_round,
                   plan, current_step_index, loop_iterations,
                   issues, pending_issue, needs_triage, validation_warnings, tool_results,
                   timeout_risk, planning_error, final_answer, answer, attempts, tool_call_log, llm_call_log>>

(* The validator's blocking findings: the question each one asks and what  *)
(* it leaves pending for the driver.                                       *)
Q_FIX_START_DATE == "Your start date looks invalid. Please provide start date as YYYY-MM-DD."

Q_FIX_END_DATE == "Your end date looks invalid. Please provide end date as YYYY-MM-DD."

Q_AMBIGUOUS_ORIGIN == "Your origin is ambiguous. Reply with 1-3. Options:"

Q_UNKNOWN_ORIGIN == "I couldn't find your origin. Please provide a real departure city/airport."

Q_UNCHECKED_ORIGIN ==
    "I couldn't validate your origin. Please provide a real departure city/airport."

Q_AMBIGUOUS_DESTINATION == "Your destination is ambiguous. Reply with 1-3. Options:"

Q_UNKNOWN_DESTINATION == "I couldn't find your destination. Please provide a real city/country."

Q_UNCHECKED_DESTINATION ==
    "I couldn't validate your destination. Please provide a real city/country."

Q_PROVIDE_DESTINATION == "Please provide destination."

Q_PROVIDE_ORIGIN == "Please provide origin."

Q_PROVIDE_START_DATE == "Please provide start date."

Q_PROVIDE_END_DATE == "Please provide end date."

Finding(qs, fixup, disamb) == [questions |-> qs, fixup |-> fixup, disamb |-> disamb]

FixField(f) == [kind |-> "field", field |-> f]

Options(f) == [kind |-> "options", field |-> f]

(* missing_core, in the order the validator builds it.                     *)
MissingCoreFinding(c) ==
    Finding(Take(AskIf(c.destinations = <<>>, Q_PROVIDE_DESTINATION)
                 \o AskIf(c.origin = "", Q_PROVIDE_ORIGIN)
                 \o AskIf(c.start_date = "", Q_PROVIDE_START_DATE)
                 \o AskIf(c.end_date = "", Q_PROVIDE_END_DATE), QUESTION_CAP),
            [kind |-> "missing_core", field |-> ""], NoPending)

(* What the geocoder may bring up about the origin and the destinations:   *)
(* an ambiguous name, an unknown name, or a failure on a suspicious name.  *)
PlaceFindings ==
    {Finding(<<Q_AMBIGUOUS_ORIGIN>>, NoPending, Options("origin")),
     Finding(<<Q_UNKNOWN_ORIGIN>>, FixField("origin"), NoPending),
     Finding(<<Q_UNCHECKED_ORIGIN>>, NoPending, NoPending),
     Finding(<<Q_AMBIGUOUS_DESTINATION>>, NoPending, Options("destinations")),
     Finding(<<Q_UNKNOWN_DESTINATION>>, FixField("destinations"), NoPending),
     Finding(<<Q_UNCHECKED_DESTINATION>>, NoPending, NoPending)}

(* The day an ISO date names, 0 for a text _parse_iso_date rejects.       *)
MaxDay == 2

DayOf(text) == IF text = "d1" THEN 1 ELSE IF text = "d2" THEN 2 ELSE 0

(* _parse_iso_date on a date text: "d1" and "d2" are ISO dates, "bad" is   *)
(* none, and what the LLM, the heuristics or the user wrote ("L", "H",     *)
(* "A") may be any of them.                                                *)
_parse_iso_date(text) ==
    IF text = "" THEN {0}
    ELSE IF text \in {"L", "H", "A"} THEN 0..MaxDay
    ELSE {DayOf(text)}

(* ISO_DATE_RE.findall(user_query): a detailed request spells out its two  *)
(* dates.                                                                  *)
_extract_iso_dates_from_text(q) == IF Detailed(q) THEN <<"H", "H">> ELSE <<>>

FILLED_START_NOTE == "Filled start_date from user text."

FILLED_END_NOTE == "Filled end_date from user text."

SWAP_NOTE == "Swapped start/end dates because end_date was earlier than start_date."

FILLED_ORIGIN_NOTE == "Filled origin from memory."

OVERRODE_ORIGIN_NOTE ==
    "Overrode origin with memory (request did not explicitly specify origin)."

AddNote(c, note) == [c EXCEPT !.notes = Append(@, note)]

(* Lines 118-125.                                                          *)
FillDates(c, q) ==
    LET dates == _extract_iso_dates_from_text(q)
        c1 == IF c.start_date = "" /\ Len(dates) >= 1
              THEN AddNote([c EXCEPT !.start_date = dates[1]], FILLED_START_NOTE) ELSE c
    IN  IF c1.end_date = "" /\ Len(dates) >= 2
        THEN AddNote([c1 EXCEPT !.end_date = dates[2]], FILLED_END_NOTE) ELSE c1

SwapDates_unnoted(c, ds, de) ==
    IF ds # 0 /\ de # 0 /\ de < ds
    THEN [c EXCEPT !.start_date = c.end_date, !.end_date = c.start_date]
    ELSE c

(* Lines 160-162: ds and de are the parsed dates.                          *)
SwapDates(c, ds, de) ==
    IF ds # 0 /\ de # 0 /\ de < ds
    THEN AddNote([c EXCEPT !.start_date = c.end_date, !.end_date = c.start_date], SWAP_NOTE)
    ELSE c

(* str.lower(): "h" is "H" in lower case, the other texts have no capital. *)
Lower(text) == IF text = "H" THEN "h" ELSE text

(* The place names that occur literally in the query: the ones a detailed  *)
(* request spells out ("H") and the answers appended to it.                *)
Spelled(q) ==
    (IF Detailed(q) THEN {"H"} ELSE {})
        \cup {q[i].text : i \in {j \in 1..Len(q) : q[j].kind = "answer"}}

_looks_explicit(value, q) ==
    value # "" /\ Lower(value) \in {Lower(t) : t \in Spelled(q)}

USING_REQUEST_ORIGIN == [kind |-> "conflict", message |-> "using request origin"]

USING_SAVED_ORIGIN == [kind |-> "conflict", message |-> "using saved origin"]

MemoryOrigin_always_saved(c, mem_origin, q) ==
    IF mem_origin = "" THEN [constraints |-> c, warnings |-> <<>>]
    ELSE IF c.origin = ""
    THEN [constraints |-> AddNote([c EXCEPT !.origin = mem_origin], FILLED_ORIGIN_NOTE),
          warnings |-> <<>>]
    ELSE IF Lower(Strip(c.origin)) # Lower(Strip(mem_origin))
    THEN [constraints |-> AddNote([c EXCEPT !.origin = mem_origin], OVERRODE_ORIGIN_NOTE),
          warnings |-> <<USING_SAVED_ORIGIN>>]
    ELSE [constraints |-> c, warnings |-> <<>>]

(* Lines 169-185: the constraints and the warnings the saved origin gives. *)
MemoryOrigin(c, mem_origin, q) ==
    IF mem_origin = "" THEN [constraints |-> c, warnings |-> <<>>]
    ELSE IF c.origin = ""
    THEN [constraints |-> AddNote([c EXCEPT !.origin = mem_origin], FILLED_ORIGIN_NOTE),
          warnings |-> <<>>]
    ELSE IF Lower(Strip(c.origin)) # Lower(Strip(mem_origin))
    THEN IF _looks_explicit(c.origin, q)
         THEN [constraints |-> c, warnings |-> <<USING_REQUEST_ORIGIN>>]
         ELSE [constraints |-> AddNote([c EXCEPT !.origin = mem_origin], OVERRODE_ORIGIN_NOTE),
               warnings |-> <<USING_SAVED_ORIGIN>>]
    ELSE [constraints |-> c, warnings |-> <<>>]

(* A blocking finding: the issue, what is pending, the questions. The      *)
(* constraints of the state stay as they were.                             *)
ValidatorAsks(f) ==
    /\ issues' = Append(issues, Issue("validation_error", "blocking",
                                      "validator", 0, "", "blocking_finding", 0))
    /\ pending_fixup' = f.fixup
    /\ pending_disambiguation' = f.disamb
    /\ AskUser(f.questions)
    /\ UNCHANGED <<constraints, missing, ndests>>

validator ==
    /\ pc = "validator"
    /\ current_step' = NodeStep("VALIDATE_INPUTS")
    /\ LET filled == FillDates(constraints, user_query) IN
       \E ds \in _parse_iso_date(filled.start_date), de \in _parse_iso_date(filled.end_date) :
          IF filled.start_date # "" /\ ds = 0
          THEN /\ ValidatorAsks(Finding(<<Q_FIX_START_DATE>>, FixField("start_date"), NoPending))
               /\ UNCHANGED validation_warnings
          ELSE IF filled.end_date # "" /\ de = 0
          THEN /\ ValidatorAsks(Finding(<<Q_FIX_END_DATE>>, FixField("end_date"), NoPending))
               /\ UNCHANGED validation_warnings
          ELSE
             LET m == MemoryOrigin(SwapDates(filled, ds, de), context_hits, user_query)
                 c == m.constraints
             IN
             \E warn \in BOOLEAN :          \* the saved interests differ, a place is unchecked
                /\ validation_warnings' =
                       validation_warnings \o m.warnings \o
                           (IF warn THEN <<[kind |-> "conflict", message |-> "kept_request_value"]>>
                            ELSE <<>>)
                /\ IF MissingCore(c) # {}
                   THEN ValidatorAsks(MissingCoreFinding(c))
                   ELSE \/ \E f \in PlaceFindings : ValidatorAsks(f)
                        \/ /\ constraints' = c              \* constraints accepted
                           /\ missing' = MissingCore(c)
                           /\ ndests' = Len(c.destinations)
                           /\ needs_user_input' = FALSE
                           /\ clarifying_questions' = <<>>
                           /\ pending_fixup' = NoPending
                           /\ pending_disambiguation' = NoPending
                           /\ UNCHANGED <<issues, termination_reason>>
    /\ Returned("validator", _validator_route(needs_user_input'))
    /\ UNCHANGED <<settingsVars, observabilityVars, driverVars, evalFnVars, evaluation,
                   user_query, typed_query, home_origin, grounded_places, context_hits, constraint_overrides,
                   chat_round, plan, current_step_index,
                   loop_iterations, pending_issue, needs_triage, tool_results, timeout_risk,
                   planning_error, final_answer, answer, attempts, tool_call_log, llm_call_log>>


(* ---------------------------------------------------------------------- *)
(* Planning (agents/nodes/brain_planner.py, agents/nodes/planner.py)       *)
(* ---------------------------------------------------------------------- *)
RECURSIVE KeepAllowed(_)
KeepAllowed(items) ==
    IF items = <<>> THEN <<>>
    ELSE LET it == Head(items)
             rest == KeepAllowed(Tail(items))
         IN  IF it.step_type \notin ALLOWED_STEP_TYPES THEN rest
             ELSE IF it.step_type = "TOOL_CALL"
                  THEN IF it.tool_name = "" \/ it.tool_name \notin ALLOWED_TOOLS
                       THEN rest
                       ELSE <<it>> \o rest
                  ELSE <<[it EXCEPT !.tool_name = ""]>> \o rest

_steps_from_plan_items(items) == KeepAllowed(Take(items, PLAN_ITEM_CAP))

RECURSIVE ExpandFrom(_, _, _, _)
ExpandFrom(steps, nd, tool, expanded) ==
    IF steps = <<>> THEN <<>>
    ELSE LET s == Head(steps) IN
         IF s.tool_name = tool /\ ~expanded
         THEN [d \in 1..nd |-> [s EXCEPT !.dest = d]] \o ExpandFrom(Tail(steps), nd, tool, TRUE)
         ELSE IF s.tool_name = tool /\ expanded
              THEN ExpandFrom(Tail(steps), nd, tool, TRUE)
              ELSE <<s>> \o ExpandFrom(Tail(steps), nd, tool, expanded)

_expand_steps_for_destinations_unchecked(steps, nd, tool) ==
    IF nd <= 1 THEN steps ELSE ExpandFrom(steps, nd, tool, FALSE)

_expand_steps_for_destinations(steps, nd, tool) ==
    IF nd <= 1 THEN steps
    ELSE LET existing == {steps[i].dest : i \in {j \in 1..Len(steps) :
                                steps[j].tool_name = tool /\ steps[j].dest # 0}}
         IN  IF Cardinality(existing) >= nd THEN steps
             ELSE ExpandFrom(steps, nd, tool, FALSE)

(* PlanStep ids are fresh uuid4 values: distinct for distinct steps.       *)
model_dump(steps) ==
    [i \in 1..Len(steps) |-> PlanStep(i, steps[i].step_type, steps[i].tool_name, steps[i].dest)]

planner(nd) ==
    IF nd > 0
    THEN <<PlanStep(1, "TOOL_CALL", "flights_search_links", 1),
           PlanStep(2, "TOOL_CALL", "hotels_search_links", 1),
           PlanStep(3, "TOOL_CALL", "things_to_do_links", 1),
           PlanStep(4, "TOOL_CALL", "weather_summary", 1),
           PlanStep(5, "SYNTHESIZE", "", 0)>>
    ELSE <<PlanStep(1, "SYNTHESIZE", "", 0)>>

(* Lines 153-177 on the plan items the LLM returned. With no usable step  *)
(* the issue and the signal are written and line 166 calls the fallback    *)
(* planner as planner(state, telemetry=telemetry); planner.py:8 declares   *)
(* planner(state) only, so the call raises TypeError before the fallback   *)
(* stores anything.                                                        *)
BrainPlannerReturns(items) ==
    LET steps == _steps_from_plan_items(items) IN
    IF steps = <<>>
    THEN /\ issues' = Append(issues, Issue("planning_error", "major", "brain_planner",
                                           0, "", "fallback_planner", 0))
         /\ planning_error' = TRUE
         /\ Raised("brain_planner")
         /\ UNCHANGED <<plan, tool_results, current_step_index>>
    ELSE /\ plan' = model_dump(
                _expand_steps_for_destinations(
                    _expand_steps_for_destinations(steps, ndests, "flights_search_links"),
                    ndests, "hotels_search_links"))
         /\ UNCHANGED <<issues, planning_error, tool_results>>
         /\ current_step_index' = 0
         /\ Returned("brain_planner", "orchestrator")

brain_planner ==
    /\ pc = "brain_planner"
    /\ current_step' = NodeStep("PLAN_DRAFT")
    /\ \/ /\ Raised("brain_planner")            \* llm.invoke_text raises
          /\ UNCHANGED <<plan, tool_results, current_step_index, issues, planning_error>>
       \/ \E items \in SeqsUpTo(LLMItems, MaxItems) : BrainPlannerReturns(items)
    /\ UNCHANGED <<loopFrame, missing, ndests, loop_iterations,
                   termination_reason, needs_user_input, clarifying_questions, pending_issue,
                   needs_triage, validation_warnings, timeout_risk, final_answer, answer, attempts, tool_call_log, llm_call_log>>


(* ---------------------------------------------------------------------- *)
(* Orchestrator (agents/nodes/orchestrator.py)                             *)
(* Indices are the program's 0-based indices: plan[i] of the program is    *)
(* plan[i + 1] here.                                                       *)
(* ---------------------------------------------------------------------- *)
NoIndex == -1

PendingIndices(p) == {i \in 0..(Len(p) - 1) : p[i + 1].status = "pending"}

LastPending(p) ==
    IF PendingIndices(p) = {} THEN NoIndex
    ELSE CHOOSE i \in PendingIndices(p) : \A j \in PendingIndices(p) : i >= j

FirstPending(p) ==
    IF PendingIndices(p) = {} THEN NoIndex
    ELSE CHOOSE i \in PendingIndices(p) : \A j \in PendingIndices(p) : i <= j

TerminalIndex_last(p) == Len(p) - 1

TerminalIndex(p) == Len(p)

SelectedStep_first(p, idx) == p[1]

SelectedStep(p, idx) == p[idx + 1]

TimeoutRiskThreshold(m) == (8 * m) \div 10

OverBudget_ge(li, m) == li >= m

OverBudget(li, m) == li > m

orchestrator ==
    /\ pc = "orchestrator"
    /\ LET li == loop_iterations + 1
           idx == FirstPending(plan)
       IN  /\ loop_iterations' = li
           /\ timeout_risk' = (timeout_risk \/ li > TimeoutRiskThreshold(max_iters))
           /\ IF OverBudget(li, max_iters)
              THEN /\ current_step' = EmptyStep
                   /\ current_step_index' = TerminalIndex(plan)
                   /\ termination_reason' = "max_iters"
              ELSE IF idx = NoIndex
                   THEN /\ current_step' = EmptyStep
                        /\ current_step_index' = TerminalIndex(plan)
                        /\ termination_reason' = "finalized"
                   ELSE /\ current_step_index' = idx
                        /\ current_step' = SelectedStep(plan, idx)
                        /\ termination_reason' = termination_reason
    /\ Returned("orchestrator", _orch_route(termination_reason'))
    /\ UNCHANGED <<loopFrame, missing, ndests, plan, needs_user_input,
                   clarifying_questions, issues, pending_issue, needs_triage,
                   validation_warnings, tool_results, planning_error, final_answer, answer, attempts, tool_call_log, llm_call_log>>

(* ---------------------------------------------------------------------- *)
(* Executor (agents/nodes/executor.py)                                     *)
(* ---------------------------------------------------------------------- *)
ToolOutcomes == {"ok", "none", "raise"}

(* The retry loop: outs[n] is what the n-th call of the tool does.         *)
RECURSIVE ToolLoop_short(_, _, _, _)
ToolLoop_short(outs, retries, a, calls) ==
    IF a < retries
    THEN IF outs[a + 1] # "raise"
         THEN [attempts |-> a + 1, last_err |-> FALSE, out |-> outs[a + 1],
               calls |-> Append(calls, outs[a + 1])]
         ELSE ToolLoop_short(outs, retries, a + 1, Append(calls, outs[a + 1]))
    ELSE [attempts |-> a, last_err |-> a > 0, out |-> "none", calls |-> calls]

RECURSIVE ToolLoop(_, _, _, _)
ToolLoop(outs, retries, a, calls) ==
    IF a <= retries
    THEN IF outs[a + 1] # "raise"
         THEN [attempts |-> a + 1, last_err |-> FALSE, out |-> outs[a + 1],
               calls |-> Append(calls, outs[a + 1])]
         ELSE ToolLoop(outs, retries, a + 1, Append(calls, outs[a + 1]))
    ELSE [attempts |-> a, last_err |-> a > 0, out |-> "none", calls |-> calls]

ToolSeverity_hotels_only(tool_name) ==
    IF tool_name = "hotels_search_links" THEN "major" ELSE "minor"

ToolSeverity(tool_name) == IF tool_name \in MAJOR_TOOLS THEN "major" ELSE "minor"

ToolResult_no_id(step) == [step_id |-> 0, tool_name |-> step.tool_name]

ToolResult(step) == [step_id |-> step.id, tool_name |-> step.tool_name]

SetStatus_kept(p, idx, st) == p

SetStatus(p, idx, st) == [p EXCEPT ![idx + 1].status = st]

ExecBlocked_unmarked(issue) ==
    /\ issues' = Append(issues, issue)
    /\ pending_issue' = issue
    /\ needs_triage' = TRUE
    /\ plan' = plan
    /\ UNCHANGED <<tool_results, final_answer, answer>>

ExecBlocked(issue) ==
    /\ issues' = Append(issues, issue)
    /\ pending_issue' = issue
    /\ needs_triage' = TRUE
    /\ plan' = SetStatus(plan, current_step_index, "blocked")
    /\ UNCHANGED <<tool_results, final_answer, answer>>

ExecDone_whole_plan ==
    /\ plan' = [i \in 1..Len(plan) |-> [plan[i] EXCEPT !.status = "done"]]
    /\ UNCHANGED <<issues, pending_issue, needs_triage>>

ExecDone ==
    /\ plan' = SetStatus(plan, current_step_index, "done")
    /\ UNCHANGED <<issues, pending_issue, needs_triage>>

(* Lines 184-231, the synthesize branch: one llm.invoke_text call (line 221,
   llm.py:55 invokes the runnable once and lines 82-157 re-raise what it
   raises).  When the call returns, the answer is stored and the selected step
   becomes done. *)
SynthesizeReturns ==
    /\ llm_call_log' = <<"ok">>
    /\ final_answer' = TRUE
    /\ answer' \in SynthesizedAnswers
    /\ ExecDone
    /\ UNCHANGED tool_results
    /\ Returned("executor", _exec_route(needs_triage'))

SynthesizeRaises_as_issue ==
    /\ llm_call_log' = <<"raise">>
    /\ ExecBlocked(Issue("tool_error", "major", "executor", current_step.id, "",
                         "synthesis_failed", 0))
    /\ Returned("executor", _exec_route(needs_triage'))

(* Line 221 raising: nothing in the executor catches it, so lines 222-231 do
   not run and the exception leaves the node. *)
SynthesizeRaises ==
    /\ llm_call_log' = <<"raise">>
    /\ Raised("executor")
    /\ UNCHANGED <<plan, issues, pending_issue, needs_triage, tool_results,
                   final_answer, answer>>

executor ==
    /\ pc = "executor"
    /\ LET step == current_step IN
       IF step = EmptyStep
       THEN /\ Returned("executor", _exec_route(needs_triage))
            /\ UNCHANGED <<plan, issues, pending_issue, needs_triage, tool_results,
                           final_answer, answer, attempts, tool_call_log, llm_call_log>>
       ELSE IF step.step_type = "RETRIEVE_CONTEXT"
       THEN /\ attempts' = 0
            /\ tool_call_log' = <<>>
            /\ llm_call_log' = <<>>
            /\ IF ~has_memory
               THEN /\ ExecBlocked(Issue("tool_error", "major", "executor", step.id, "",
                                         "memory_unavailable", 0))
                    /\ Returned("executor", _exec_route(needs_triage'))
               ELSE \/ /\ ExecDone                       \* memory.search returns hits
                       /\ UNCHANGED <<tool_results, final_answer, answer>>
                       /\ Returned("executor", _exec_route(needs_triage'))
                    \/ /\ Raised("executor")             \* memory.search raises
                       /\ UNCHANGED <<plan, issues, pending_issue, needs_triage,
                                      tool_results, final_answer, answer>>
       ELSE IF step.step_type = "TOOL_CALL" /\ step.tool_name # ""
       THEN \E outs \in [1..(max_tool_retries + 1) -> ToolOutcomes] :
               LET r == ToolLoop(outs, max_tool_retries, 0, <<>>) IN
               /\ attempts' = r.attempts
               /\ tool_call_log' = r.calls
               /\ llm_call_log' = <<>>
               /\ IF ~r.last_err /\ r.out # "none"
                  THEN /\ tool_results' = Append(tool_results, ToolResult(step))
                       /\ ExecDone
                       /\ UNCHANGED <<final_answer, answer>>
                  ELSE ExecBlocked(Issue("tool_error", ToolSeverity(step.tool_name),
                                         "executor", step.id, step.tool_name,
                                         "tool_failed", r.attempts))
               /\ Returned("executor", _exec_route(needs_triage'))
       ELSE /\ attempts' = 0
            /\ tool_call_log' = <<>>
            /\ \/ SynthesizeReturns
               \/ SynthesizeRaises
    /\ UNCHANGED <<loopFrame, missing, ndests, current_step,
                   current_step_index, loop_iterations, termination_reason, needs_user_input,
                   clarifying_questions, validation_warnings, timeout_risk, planning_error>>


(* ---------------------------------------------------------------------- *)
(* Issue triage (agents/nodes/issue_triage.py)                             *)
(* ---------------------------------------------------------------------- *)
_find_step_index(p, step_id) ==
    IF step_id = 0 THEN NoIndex
    ELSE LET hits == {i \in 0..(Len(p) - 1) : p[i + 1].id = step_id}
         IN  IF hits = {} THEN NoIndex
             ELSE CHOOSE i \in hits : \A j \in hits : i <= j

(* Issue.model_validate: an empty dict fails validation and is replaced.   *)
ValidatedIssue(pending) ==
    IF pending = EmptyIssue
    THEN Issue("tool_error", "major", "issue_triage", 0, "", "unparsed", 0)
    ELSE pending

MarkSkipped_retry(p, idx) ==
    [p EXCEPT ![idx + 1].status = "pending", ![idx + 1].notes = @ + 1]

MarkSkipped_no_note(p, idx) ==
    [p EXCEPT ![idx + 1].status = "done"]

MarkSkipped(p, idx) ==
    [p EXCEPT ![idx + 1].status = "done", ![idx + 1].notes = @ + 1]

SkipWarning(issue) == [kind |-> issue.kind, message |-> issue.message]

issue_triage ==
    /\ pc = "issue_triage"
    /\ current_step' = NodeStep("EVALUATE_STEP")
    /\ IF pending_issue = AbsentIssue
       THEN /\ needs_triage' = FALSE
            /\ UNCHANGED <<plan, pending_issue, validation_warnings>>
       ELSE LET issue == ValidatedIssue(pending_issue)
                idx == _find_step_index(plan, issue.step_id)
            IN  /\ plan' = IF idx # NoIndex THEN MarkSkipped(plan, idx) ELSE plan
                /\ needs_triage' = FALSE
                /\ pending_issue' = EmptyIssue
                /\ validation_warnings' = Append(validation_warnings, SkipWarning(issue))
    /\ attempts' = 0                          \* the executor's locals are gone
    /\ tool_call_log' = <<>>
    /\ llm_call_log' = <<>>
    /\ Returned("issue_triage", _triage_route(needs_user_input))
    /\ UNCHANGED <<loopFrame, missing, ndests, current_step_index,
                   loop_iterations, termination_reason, needs_user_input, clarifying_questions,
                   issues, tool_results, timeout_risk, planning_error, final_answer, answer>>

(* ---------------------------------------------------------------------- *)
(* Step and final evaluation (agents/nodes/evaluator.py)                   *)
(* ---------------------------------------------------------------------- *)
HasResult(results, step_id) == \E i \in 1..Len(results) : results[i].step_id = step_id

evaluate_step ==
    /\ pc = "evaluate_step"
    /\ termination_reason' =
           IF /\ current_step # EmptyStep
              /\ current_step.step_type = "TOOL_CALL"
              /\ ~HasResult(tool_results, current_step.id)
           THEN "error"
           ELSE termination_reason
    /\ attempts' = 0                          \* the executor's locals are gone
    /\ tool_call_log' = <<>>
    /\ llm_call_log' = <<>>
    /\ Returned("evaluate_step", "orchestrator")
    /\ UNCHANGED <<loopFrame, missing, ndests, plan, current_step,
                   current_step_index, loop_iterations, needs_user_input, clarifying_questions,
                   issues, pending_issue, needs_triage, validation_warnings, tool_results,
                   timeout_risk, planning_error, final_answer, answer>>

(* ---------------------------------------------------------------------- *)
(* The linear tail: responder, export_ics, evaluate_final, memory_writer   *)
(* ---------------------------------------------------------------------- *)
responder ==
    /\ pc = "responder"
    /\ final_answer' = TRUE
    /\ answer' = Respond(answer, constraints, ToolNamesOf(tool_results))
    /\ Returned("responder", "export_ics")
    /\ UNCHANGED <<loopFrame, missing, ndests, plan, current_step,
                   current_step_index, loop_iterations, termination_reason, needs_user_input,
                   clarifying_questions, issues, pending_issue, needs_triage,
                   validation_warnings, tool_results, timeout_risk, planning_error, attempts, tool_call_log, llm_call_log>>

export_ics ==
    /\ pc = "export_ics"
    /\ current_step' = NodeStep("EXPORT_ICS")
    /\ Returned("export_ics", "evaluate_final")
    /\ UNCHANGED <<loopFrame, missing, ndests, plan, current_step_index,
                   loop_iterations, termination_reason, needs_user_input, clarifying_questions,
                   issues, pending_issue, needs_triage, validation_warnings, tool_results,
                   timeout_risk, planning_error, final_answer, answer, attempts, tool_call_log, llm_call_log>>

(* evaluation.py: the rubric scores are kept in tenths of a point, so that  *)
(* avg >= eval_threshold is sum / 5 >= eval_threshold without rounding.    *)
ScoreLevels == {30, 35, 40}

RECURSIVE SumScores(_, _)
SumScores(scores, names) ==
    IF names = {} THEN 0
    ELSE LET r == CHOOSE x \in names : TRUE
         IN  scores[r] + SumScores(scores, names \ {r})

MeetsThreshold_strict(total, n, threshold) == total > threshold * n

MeetsThreshold(total, n, threshold) == total >= threshold * n

AllGates(gates) == \A g \in DOMAIN gates : gates[g]

evaluate_final(gates, scores, threshold) ==
    LET total == SumScores(scores, DOMAIN scores)
        all_gates == AllGates(gates)
        status == IF all_gates /\ MeetsThreshold(total, Cardinality(DOMAIN scores), threshold)
                  THEN "good"
                  ELSE IF all_gates THEN "needs_work" ELSE "failed"
    IN  [hard_gates |-> gates, rubric_scores |-> scores, overall_status |-> status,
         notes |-> IF all_gates THEN <<"average">> ELSE <<"gates_failed", "average">>]

(* What the gate and rubric helpers may find in the final answer of a run. *)
AnswerGates == [HardGateNames -> BOOLEAN]

AnswerScores == {[r \in RubricNames |-> v] : v \in ScoreLevels}

EvaluationFailIssue_as_validation ==
    Issue("validation_error", "blocking", "evaluate_final", 0, "", "hard_gate_failed", 0)

EvaluationFailIssue ==
    Issue("evaluation_fail", "major", "evaluate_final", 0, "", "hard_gate_failed", 0)

evaluate_final_node ==
    /\ pc = "evaluate_final"
    /\ current_step' = NodeStep("EVALUATE_FINAL")
    /\ \E gates \in AnswerGates, scores \in AnswerScores :
          LET result == evaluate_final(gates, scores, eval_threshold) IN
          /\ evaluation' = result.overall_status
          /\ issues' = IF result.overall_status = "failed"
                       THEN Append(issues, EvaluationFailIssue)
                       ELSE issues
    /\ Returned("evaluate_final", "memory_writer")
    /\ UNCHANGED <<settingsVars, observabilityVars, driverVars, evalFnVars, intakeVars, missing, ndests, plan,
                   current_step_index, loop_iterations, termination_reason, needs_user_input,
                   clarifying_questions, pending_issue, needs_triage, validation_warnings,
                   tool_results, timeout_risk, planning_error, final_answer, answer, attempts,
                   tool_call_log, llm_call_log>>

memory_writer ==
    /\ pc = "memory_writer"
    /\ current_step' = NodeStep("WRITE_MEMORY")
    /\ \/ Returned("memory_writer", "__end__")
       \/ Raised("memory_writer")               \* memory.add_user raises
    /\ UNCHANGED <<loopFrame, missing, ndests, plan, current_step_index,
                   loop_iterations, termination_reason, needs_user_input, clarifying_questions,
                   issues, pending_issue, needs_triage, validation_warnings, tool_results,
                   timeout_risk, planning_error, final_answer, answer, attempts, tool_call_log, llm_call_log>>

(* ---------------------------------------------------------------------- *)
(* Drivers (run_experiments.py _run_single, cli.py chat)                   *)
(* pc = "__done__": the driver wrote the run's metrics record;             *)
(* pc = "__crashed__": the exception left the driver.                      *)
(* ---------------------------------------------------------------------- *)
RunStatus(term, answered) ==
    IF term = "asked_user" THEN "asked_user"
    ELSE IF term = "error" THEN "error"
    ELSE IF answered /\ term \in {"finalized", "max_iters"} THEN "ok"
    ELSE "unknown"

graphVars ==
    <<missing, ndests, plan, current_step, current_step_index, loop_iterations,
      needs_user_input, clarifying_questions, issues, pending_issue, needs_triage,
      validation_warnings, tool_results, timeout_risk, planning_error, final_answer, answer,
      attempts, tool_call_log, llm_call_log, evaluation>>

(* graph_app.invoke inside try/except Exception, then the metrics record.  *)
_run_single ==
    /\ driver = "experiments"
    /\ pc \in {"__end__", "__error__"}
    /\ termination_reason' = IF pc = "__error__" THEN "error" ELSE termination_reason
    /\ metrics_record' = RunStatus(termination_reason', final_answer)
    /\ pc' = "__done__"
    /\ UNCHANGED <<settingsVars, observabilityVars, evalFnVars, graphVars, intakeVars, current_node, node_error, graph_steps,
                   stream_fallback>>

(* _stream_or_invoke catches TypeError only, and answers it by invoking    *)
(* the graph again on the state it was given; that second invocation is    *)
(* not guarded.  Every other exception leaves chat().                      *)
chat_stream_error ==
    /\ driver = "cli"
    /\ pc = "__error__"
    /\ \E type_error \in BOOLEAN :
          IF type_error /\ ~stream_fallback
          THEN /\ pc' = "context_controller"
               /\ current_node' = ""
               /\ missing' = CoreFields
               /\ ndests' = 0
               /\ plan' = <<>>
               /\ current_step' = EmptyStep
               /\ current_step_index' = 0
               /\ loop_iterations' = 0
               /\ termination_reason' = ""
               /\ needs_user_input' = FALSE
               /\ clarifying_questions' = <<>>
               /\ issues' = <<>>
               /\ pending_issue' = AbsentIssue
               /\ needs_triage' = FALSE
               /\ validation_warnings' = <<>>
               /\ tool_results' = <<>>
               /\ timeout_risk' = FALSE
               /\ planning_error' = FALSE
               /\ final_answer' = FALSE
               /\ answer' = <<>>
               /\ attempts' = 0
               /\ tool_call_log' = <<>>
               /\ llm_call_log' = <<>>
               /\ node_error' = ""
               /\ graph_steps' = 0
               /\ evaluation' = ""
               /\ stream_fallback' = TRUE
               /\ user_query' = typed_query
               /\ context_hits' = ""
               /\ constraints' = TripConstraints
               /\ constraint_overrides' = NoOverrides
               /\ pending_fixup' = NoPending
               /\ pending_disambiguation' = NoPending
               /\ UNCHANGED <<metrics_record, typed_query, home_origin, grounded_places, chat_round>>
          ELSE /\ pc' = "__crashed__"
               /\ UNCHANGED <<graphVars, intakeVars, current_node, node_error, graph_steps,
                              termination_reason, driverVars>>
    /\ UNCHANGED <<settingsVars, observabilityVars, evalFnVars>>

(* The graph returned and chat() leaves its clarification loop (no input   *)
(* needed, or no answer given): run status and metrics record.             *)
chat_finish ==
    /\ driver = "cli"
    /\ pc = "__end__"
    /\ metrics_record' = RunStatus(termination_reason, final_answer)
    /\ pc' = "__done__"
    /\ UNCHANGED <<settingsVars, observabilityVars, evalFnVars, graphVars, intakeVars, current_node, node_error, graph_steps,
                   termination_reason, stream_fallback>>

(* The phrases _infer_override_from_question looks for, per question.     *)
Q_DEFAULT == "Please clarify your origin, destination(s), and dates (YYYY-MM-DD)."

QuestionWords(q) ==
    CASE q = Q_DESTINATION -> {"destination", "where do you want to travel"}
      [] q = Q_START_DATE -> {"start date"}
      [] q = Q_END_DATE -> {"end date"}
      [] q = Q_ORIGIN -> {"departing"}
      [] q = Q_FIX_START_DATE -> {"start date"}
      [] q = Q_FIX_END_DATE -> {"end date"}
      [] q = Q_AMBIGUOUS_ORIGIN -> {"origin"}
      [] q = Q_UNKNOWN_ORIGIN -> {"origin", "departure"}
      [] q = Q_UNCHECKED_ORIGIN -> {"origin", "departure"}
      [] q = Q_AMBIGUOUS_DESTINATION -> {"destination"}
      [] q = Q_UNKNOWN_DESTINATION -> {"destination"}
      [] q = Q_UNCHECKED_DESTINATION -> {"destination"}
      [] q = Q_PROVIDE_DESTINATION -> {"destination"}
      [] q = Q_PROVIDE_ORIGIN -> {"origin"}
      [] q = Q_PROVIDE_START_DATE -> {"start date"}
      [] q = Q_PROVIDE_END_DATE -> {"end date"}
      [] q = Q_DEFAULT -> {"origin", "destination"}
      [] OTHER -> {}

SetOverride(ov, field, value) ==
    [ov EXCEPT !.present = TRUE, !.keys = @ \cup {field}, ![field] = value]

(* state.setdefault("constraint_overrides", {}).update(inferred) for a     *)
(* non-blank answer a to question q.                                       *)
_infer_override_from_question(ov, q, a) ==
    LET words == QuestionWords(q) IN
    IF words \cap {"destination", "where do you want to travel"} # {}
    THEN SetOverride(ov, "destinations", <<a>>)
    ELSE IF words \cap {"departing", "departure", "origin"} # {}
    THEN SetOverride(ov, "origin", a)
    ELSE IF "start date" \in words THEN SetOverride(ov, "start_date", a)
    ELSE IF "end date" \in words THEN SetOverride(ov, "end_date", a)
    ELSE ov

(* One pass of the for loop over the questions: what a non-blank answer    *)
(* writes into the overrides.                                              *)
AnswerOverride(ov, q, a, fixup, disamb) ==
    IF disamb # NoPending
    THEN IF disamb.field = "origin" THEN SetOverride(ov, "origin", a)
         ELSE IF disamb.field = "destinations" THEN SetOverride(ov, "destinations", <<a>>)
         ELSE ov
    ELSE IF fixup # NoPending
    THEN IF fixup.kind = "missing_core" THEN _infer_override_from_question(ov, q, a)
         ELSE IF fixup.field = "destinations" THEN SetOverride(ov, "destinations", <<a>>)
         ELSE IF fixup.field \in TextFields THEN SetOverride(ov, fixup.field, a)
         ELSE ov
    ELSE _infer_override_from_question(ov, q, a)

RECURSIVE CollectOverrides(_, _, _, _, _)
CollectOverrides(ov, qs, typed, fixup, disamb) ==
    IF qs = <<>> THEN ov
    ELSE CollectOverrides(IF Head(typed) = "" THEN ov
                          ELSE AnswerOverride(ov, Head(qs), Head(typed), fixup, disamb),
                          Tail(qs), Tail(typed), fixup, disamb)

RECURSIVE CollectAnswers(_, _)
CollectAnswers(qs, typed) ==
    IF qs = <<>> THEN <<>>
    ELSE (IF Head(typed) = "" THEN <<>> ELSE <<AnswerPart(Head(qs), Head(typed))>>)
         \o CollectAnswers(Tail(qs), Tail(typed))

(* What the user may type at a prompt, after strip: nothing or some text.  *)
TypedAnswers == {"", "A"}

(* The graph returned with needs_user_input set, the user answers at least *)
(* one question, and chat() invokes the graph again on the returned state  *)
(* with the query rebuilt from the typed request and these answers.        *)
chat_clarify ==
    /\ driver = "cli"
    /\ pc = "__end__"
    /\ needs_user_input
    /\ chat_round < MaxRounds
    /\ LET qs == IF clarifying_questions = <<>> THEN <<Q_DEFAULT>> ELSE clarifying_questions IN
       \E typed \in [1..Len(qs) -> TypedAnswers] :
          LET answers == CollectAnswers(qs, typed) IN
          /\ answers # <<>>
          /\ constraint_overrides' =
                 CollectOverrides(constraint_overrides, qs, typed, pending_fixup,
                                  pending_disambiguation)
          /\ user_query' = typed_query \o <<HeaderPart>> \o answers
    /\ needs_user_input' = FALSE
    /\ clarifying_questions' = <<>>
    /\ pending_fixup' = NoPending
    /\ pending_disambiguation' = NoPending
    /\ chat_round' = chat_round + 1
    /\ pc' = "context_controller"
    /\ graph_steps' = 0                       \* a new invocation of the graph
    /\ UNCHANGED <<settingsVars, observabilityVars, driverVars, evalFnVars, evaluation,
                   typed_query, home_origin, grounded_places, context_hits, constraints,
                   current_node, node_error, termination_reason, missing, ndests, plan,
                   current_step, current_step_index, loop_iterations, issues, pending_issue,
                   needs_triage, validation_warnings, tool_results, timeout_risk,
                   planning_error, final_answer, answer, attempts, tool_call_log, llm_call_log>>

(* Spec is a run in which the user answers no clarifying question.         *)
Next ==
    \/ context_controller
    \/ intent_parser
    \/ validator
    \/ brain_planner
    \/ orchestrator
    \/ executor
    \/ issue_triage
    \/ evaluate_step
    \/ responder
    \/ export_ics
    \/ evaluate_final_node
    \/ memory_writer
    \/ _run_single
    \/ chat_stream_error
    \/ chat_finish

Spec == Init /\ [][Next]_vars

(* The graph runtime runs the next node whenever there is one.             *)
FairSpec == Spec /\ WF_vars(Next)

(* ---------------------------------------------------------------------- *)
(* evaluate_final as a function of its inputs (evaluation.py)              *)
(* ---------------------------------------------------------------------- *)
EvalThresholds == {30, 35, 40}

EvalInit ==
    /\ home_origin = ""
    /\ grounded_places = NoGrounding
    /\ typed_query = <<RequestPart("plain")>>
    /\ constraint_overrides = NoOverrides
    /\ GraphInit
    /\ ObservabilityIdle
    /\ max_iters = 1
    /\ max_tool_retries = 0
    /\ has_memory = FALSE
    /\ driver = "experiments"
    /\ eval_threshold \in EvalThresholds
    /\ hard_gates \in [HardGateNames -> BOOLEAN]
    /\ rubric_scores \in [RubricNames -> ScoreLevels]
    /\ eval_result = NoResult

EvaluateFinalCall ==
    /\ eval_result = NoResult
    /\ eval_result' = evaluate_final(hard_gates, rubric_scores, eval_threshold)
    /\ UNCHANGED <<settingsVars, observabilityVars, hard_gates, rubric_scores, graphVars, intakeVars, pc,
                   current_node, node_error, graph_steps, termination_reason, driverVars>>

EvalNext == EvaluateFinalCall

EvalSpec == EvalInit /\ [][EvalNext]_vars

(* ---------------------------------------------------------------------- *)
(* The telemetry controller under any sequence of calls                    *)
(* (observability/telemetry.py)                                            *)
(* ---------------------------------------------------------------------- *)
TelemetryModes == {"minimal", "detailed", "selective"}

_MINIMAL_EVENTS ==
    {"intent_parse", "validated_constraints", "plan", "plan_fallback", "tool_result",
     "synth_result", "final_answer", "eval_final", "export_ics", "issue_triage", "run_error"}

(* The events the callers trace here: one outside _MINIMAL_EVENTS, one in  *)
(* it, and one whose name ends with "_error".                              *)
TraceEvents == {"tool_call", "tool_result", "node_error"}

EndsWithError(event) == event \in {"node_error", "run_error"}

Payload(n, event) == [seq |-> n, event |-> event]

LastN(q, n) == IF Len(q) > n THEN SubSeq(q, Len(q) - n + 1, Len(q)) ELSE q

FlushBuffer_reversed(file, buffer) ==
    file \o [i \in 1..Len(buffer) |-> buffer[Len(buffer) + 1 - i]]

(* for payload in self._buffer: self._write(payload)                       *)
FlushBuffer(file, buffer) == file \o buffer

(* state["signals"] holds a true value.                                    *)
AnySignal(tr, pe) == tr \/ pe

maybe_escalate(any) ==
    IF telemetry_mode # "selective" \/ _escalated \/ ~any
    THEN UNCHANGED <<_escalated, _buffer, trace_jsonl>>
    ELSE /\ _escalated' = TRUE
         /\ trace_jsonl' = FlushBuffer(trace_jsonl, _buffer)
         /\ _buffer' = <<>>

(* What a telemetry action leaves alone: the whole state of the run but    *)
(* its signals.                                                            *)
runVarsButSignals ==
    <<pc, current_node, node_error, graph_steps, termination_reason, settingsVars, driverVars, evalFnVars,
      intakeVars, missing, ndests, plan, current_step, current_step_index, loop_iterations,
      needs_user_input, clarifying_questions, issues, pending_issue, needs_triage,
      validation_warnings, tool_results, final_answer, answer, attempts, tool_call_log, llm_call_log, evaluation>>

(* set_signal(state, key, True, telemetry), as brain_planner calls it.     *)
set_signal ==
    /\ planning_error' = TRUE
    /\ maybe_escalate(AnySignal(timeout_risk, planning_error'))
    /\ UNCHANGED <<runVarsButSignals, nodeMetricsVars, timeout_risk, telemetry_mode, buffer_size, events_traced,
                   trackerVars>>

(* state["signals"]["timeout_risk"] = True, as the orchestrator writes it: *)
(* the controller is not called.                                           *)
write_signal ==
    /\ timeout_risk' = TRUE
    /\ UNCHANGED <<runVarsButSignals, nodeMetricsVars, planning_error, telemetryVars, trackerVars>>

trace ==
    /\ events_traced < MaxEvents
    /\ events_traced' = events_traced + 1
    /\ \E event \in TraceEvents :
          LET payload == Payload(events_traced + 1, event) IN
          IF telemetry_mode = "minimal"
          THEN /\ trace_jsonl' = IF event \in _MINIMAL_EVENTS \/ EndsWithError(event)
                                 THEN Append(trace_jsonl, payload)
                                 ELSE trace_jsonl
               /\ UNCHANGED _buffer
          ELSE IF telemetry_mode = "detailed" \/ _escalated
          THEN /\ trace_jsonl' = Append(trace_jsonl, payload)
               /\ UNCHANGED _buffer
          ELSE IF telemetry_mode = "selective"
          THEN /\ _buffer' = LastN(Append(_buffer, payload), buffer_size)
               /\ UNCHANGED trace_jsonl
          ELSE UNCHANGED <<_buffer, trace_jsonl>>
    /\ UNCHANGED <<runVarsButSignals, nodeMetricsVars, timeout_risk, planning_error, telemetry_mode, buffer_size,
                   _escalated, trackerVars>>

TelemetryInit ==
    /\ home_origin = ""
    /\ grounded_places = NoGrounding
    /\ typed_query = <<RequestPart("plain")>>
    /\ constraint_overrides = NoOverrides
    /\ GraphInit
    /\ max_iters = 1
    /\ max_tool_retries = 0
    /\ has_memory = FALSE
    /\ driver = "experiments"
    /\ eval_threshold = DEFAULT_EVAL_THRESHOLD
    /\ hard_gates = NoGates
    /\ rubric_scores = NoScores
    /\ eval_result = NoResult
    /\ \E mode \in TelemetryModes, size \in 1..MaxBuffer : TelemetryController(mode, size)
    /\ NoFailureTracker
    /\ NoNodeRun

TelemetryNext == trace \/ set_signal \/ write_signal

TelemetrySpec == TelemetryInit /\ [][TelemetryNext]_vars

(* ---------------------------------------------------------------------- *)
(* The failure tracker and the combined log under any sequence of calls    *)
(* (observability/failure_tracker.py, observability/logger.py)             *)
(* ---------------------------------------------------------------------- *)
FailureLine(n, event) == [n |-> n, event |-> event]

CombinedLine(n, kind, event) == [n |-> n, kind |-> kind, event |-> event]

Call(op, run) ==
    /\ log_calls < MaxCalls
    /\ log_calls' = log_calls + 1
    /\ last_call' = [op |-> op, run |-> run]

(* FailureTracker._write_combined_log on the tracker of run r.             *)
_write_combined_log(r, event) ==
    combined_log' =
        [combined_log EXCEPT ![r] = Append(@, CombinedLine(log_calls + 1, "failure", event))]

_write_failure_log_unmirrored(r, event) ==
    /\ failure_log' = [failure_log EXCEPT ![r] = Append(@, FailureLine(log_calls + 1, event))]
    /\ UNCHANGED combined_log

(* FailureTracker._write_failure_log on the tracker of run r.              *)
_write_failure_log(r, event) ==
    /\ failure_log' = [failure_log EXCEPT ![r] = Append(@, FailureLine(log_calls + 1, event))]
    /\ _write_combined_log(r, event)

(* set_failure_tracker(FailureTracker(run_id, ...)) or                     *)
(* set_failure_tracker(None): the files of earlier trackers stay.          *)
set_failure_tracker ==
    /\ \E r \in RunIds \cup {""} :
          /\ _global_failure_tracker' = r
          /\ Call("set_failure_tracker", r)
    /\ failure_count' = 0
    /\ UNCHANGED <<runVarsButSignals, nodeMetricsVars, timeout_risk, planning_error, telemetryVars, failure_log,
                   combined_log>>

(* get_failure_tracker().record_failure(...)                               *)
record_failure ==
    /\ _global_failure_tracker # ""
    /\ Call("record_failure", _global_failure_tracker)
    /\ failure_count' = failure_count + 1
    /\ _write_failure_log(_global_failure_tracker, "failure_recorded")
    /\ UNCHANGED <<runVarsButSignals, nodeMetricsVars, timeout_risk, planning_error, telemetryVars,
                   _global_failure_tracker>>

(* get_failure_tracker().mark_recovered(failure, action) on a failure the  *)
(* tracker recorded.                                                       *)
mark_recovered ==
    /\ _global_failure_tracker # ""
    /\ failure_count > 0
    /\ Call("mark_recovered", _global_failure_tracker)
    /\ _write_failure_log(_global_failure_tracker, "failure_recovered")
    /\ UNCHANGED <<runVarsButSignals, nodeMetricsVars, timeout_risk, planning_error, telemetryVars,
                   _global_failure_tracker, failure_count>>

(* _write_combined_log_event: the tracker whose log the event goes to, ""  *)
(* when it is dropped. context_run_id is "" for no context or no run id.   *)
MirrorsTo(tracker, context_run_id) ==
    IF tracker = "" THEN ""
    ELSE IF context_run_id # "" /\ context_run_id # tracker THEN ""
    ELSE tracker

(* log_event(logger, level, message, event, context, data)                 *)
log_event ==
    /\ \E context_run_id \in RunIds \cup {""} :
          /\ Call("log_event", context_run_id)
          /\ LET r == MirrorsTo(_global_failure_tracker, context_run_id) IN
             combined_log' =
                 IF r = "" THEN combined_log
                 ELSE [combined_log EXCEPT
                          ![r] = Append(@, CombinedLine(log_calls + 1, "normal", "node_enter"))]
    /\ UNCHANGED <<runVarsButSignals, nodeMetricsVars, timeout_risk, planning_error, telemetryVars,
                   _global_failure_tracker, failure_count, failure_log>>

LogInit ==
    /\ home_origin = ""
    /\ grounded_places = NoGrounding
    /\ typed_query = <<RequestPart("plain")>>
    /\ constraint_overrides = NoOverrides
    /\ GraphInit
    /\ ObservabilityIdle
    /\ max_iters = 1
    /\ max_tool_retries = 0
    /\ has_memory = FALSE
    /\ driver = "cli"
    /\ eval_threshold = DEFAULT_EVAL_THRESHOLD
    /\ hard_gates = NoGates
    /\ rubric_scores = NoScores
    /\ eval_result = NoResult

LogNext == set_failure_tracker \/ record_failure \/ mark_recovered \/ log_event

LogSpec == LogInit /\ [][LogNext]_vars

(* ---------------------------------------------------------------------- *)
(* instrument_node around node functions that return or raise             *)
(* (agents/nodes/utils.py)                                                 *)
(* ---------------------------------------------------------------------- *)
(* The nodes the runtime is taken through here; what the wrapped function  *)
(* does to the state is left out, it returns or it raises.                 *)
WrappedNodes == {"context_controller", "executor", "evaluate_step"}

NodeEvent(event, node_name) == [event |-> event, graph_node |-> node_name]

InstrumentInit ==
    /\ home_origin = ""
    /\ grounded_places = NoGrounding
    /\ typed_query = <<RequestPart("plain")>>
    /\ constraint_overrides = NoOverrides
    /\ GraphInit
    /\ ObservabilityIdle
    /\ max_iters = 1
    /\ max_tool_retries = 0
    /\ has_memory = FALSE
    /\ driver = "cli"
    /\ eval_threshold = DEFAULT_EVAL_THRESHOLD
    /\ hard_gates = NoGates
    /\ rubric_scores = NoScores
    /\ eval_result = NoResult

(* Lines 34-37: current_node, the node_enter event and the transitions     *)
(* counter, before the wrapped function is called.                         *)
NodeEnter(node_name) ==
    /\ current_node' = node_name
    /\ graph_node_transitions' = graph_node_transitions + 1

instrumentFrame ==
    <<settingsVars, telemetryVars, trackerVars, driverVars, evalFnVars, intakeVars, graphVars,
      termination_reason>>

(* Lines 41-52: the wrapped function returns, node_exit is logged and the  *)
(* runtime goes on to the next node.                                       *)
wrapped_returns ==
    /\ pc \in WrappedNodes
    /\ graph_steps < MaxNodeRuns
    /\ NodeEnter(pc)
    /\ node_events' = node_events \o <<NodeEvent("node_enter", pc), NodeEvent("node_exit", pc)>>
    /\ graph_node_errors' = graph_node_errors
    /\ node_error' = node_error
    /\ graph_steps' = graph_steps + 1
    /\ pc' \in WrappedNodes \cup {"__end__"}
    /\ UNCHANGED instrumentFrame

wrapped_raises_uncounted ==
    /\ pc \in WrappedNodes
    /\ graph_steps < MaxNodeRuns
    /\ NodeEnter(pc)
    /\ node_events' = node_events \o <<NodeEvent("node_enter", pc), NodeEvent("node_error", pc)>>
    /\ graph_node_errors' = graph_node_errors
    /\ node_error' = pc
    /\ graph_steps' = graph_steps + 1
    /\ pc' = "__error__"
    /\ UNCHANGED instrumentFrame

(* Lines 53-65: the wrapped function raises an Exception, the errors       *)
(* counter goes up, node_error is logged and the exception is raised again, *)
(* which stops the graph.                                                  *)
wrapped_raises ==
    /\ pc \in WrappedNodes
    /\ graph_steps < MaxNodeRuns
    /\ NodeEnter(pc)
    /\ node_events' = node_events \o <<NodeEvent("node_enter", pc), NodeEvent("node_error", pc)>>
    /\ graph_node_errors' = graph_node_errors + 1
    /\ node_error' = pc
    /\ graph_steps' = graph_steps + 1
    /\ pc' = "__error__"
    /\ UNCHANGED instrumentFrame

InstrumentNext == wrapped_returns \/ wrapped_raises

InstrumentSpec == InstrumentInit /\ [][InstrumentNext]_vars

(* ---------------------------------------------------------------------- *)
(* The responder on every answer text, constraints and tool results        *)
(* ---------------------------------------------------------------------- *)
InputTitles == {"", "Flights", "Weather", "Calendar"}

InputBodies == {<<>>, <<"text">>, <<"na">>, <<"price", DISCLAIMER>>}

InputBlocks ==
    {Block(t, st, b) : t \in InputTitles, st \in {"atx", "bold"}, b \in InputBodies}

(* The texts of up to MaxSections blocks: only the first block can be the  *)
(* lines before the first heading, and those lines have no heading style.  *)
AnswerTexts ==
    {a \in UNION {[1..n -> InputBlocks] : n \in 0..MaxSections} :
        \A i \in 1..Len(a) : a[i].title = "" => (i = 1 /\ a[i].style = "atx")}

FullConstraints ==
    [TripConstraints EXCEPT !.origin = "L", !.destinations = <<"L">>, !.start_date = "L",
                            !.end_date = "L", !.budget_usd = "L"]

ResponderInit ==
    /\ home_origin = ""
    /\ grounded_places = NoGrounding
    /\ context_hits = ""
    /\ typed_query = <<RequestPart("plain")>>
    /\ constraint_overrides = NoOverrides
    /\ ObservabilityIdle
    /\ max_iters = 1
    /\ max_tool_retries = 0
    /\ has_memory = FALSE
    /\ driver = "experiments"
    /\ eval_threshold = DEFAULT_EVAL_THRESHOLD
    /\ hard_gates = NoGates
    /\ rubric_scores = NoScores
    /\ eval_result = NoResult
    /\ pc = "responder"
    /\ current_node = "orchestrator"
    /\ missing = {}
    /\ ndests = 0
    /\ plan = <<>>
    /\ current_step = EmptyStep
    /\ current_step_index = 0
    /\ loop_iterations = 1
    /\ termination_reason = "finalized"
    /\ needs_user_input = FALSE
    /\ clarifying_questions = <<>>
    /\ issues = <<>>
    /\ pending_issue = AbsentIssue
    /\ needs_triage = FALSE
    /\ validation_warnings = <<>>
    /\ tool_results \in {<<>>, <<[step_id |-> 0, tool_name |-> "flights_search_links"],
                                 [step_id |-> 0, tool_name |-> "weather_summary"]>>}
    /\ timeout_risk = FALSE
    /\ planning_error = FALSE
    /\ answer \in AnswerTexts
    /\ final_answer = (answer # <<>>)
    /\ attempts = 0
    /\ tool_call_log = <<>>
    /\ llm_call_log = <<>>
    /\ node_error = ""
    /\ graph_steps = 5
    /\ evaluation = ""
    /\ stream_fallback = FALSE
    /\ metrics_record = ""
    /\ user_query = typed_query
    /\ constraints \in {TripConstraints, FullConstraints}
    /\ pending_fixup = NoPending
    /\ pending_disambiguation = NoPending
    /\ chat_round = 0

ResponderNext == responder

ResponderSpec == ResponderInit /\ [][ResponderNext]_vars

(* ---------------------------------------------------------------------- *)
(* The validator on every constraints, request and saved origin            *)
(* ---------------------------------------------------------------------- *)
DateInputs == {"", "bad", "d1", "d2"}

OriginInputs == {"", "L", "H"}

SavedOrigins == {"", "M", "H", "h"}

ValidatorInputs ==
    {[TripConstraints EXCEPT !.origin = o, !.destinations = d, !.start_date = sd,
                             !.end_date = ed] :
        o \in OriginInputs, d \in {<<>>, <<"L">>}, sd \in DateInputs, ed \in DateInputs}

ValidatorInit ==
    /\ home_origin \in SavedOrigins
    /\ grounded_places = NoGrounding
    /\ typed_query \in {<<RequestPart(k)>> : k \in RequestKinds}
    /\ constraint_overrides = NoOverrides
    /\ ObservabilityIdle
    /\ max_iters = 1
    /\ max_tool_retries = 0
    /\ has_memory = FALSE
    /\ driver = "experiments"
    /\ eval_threshold = DEFAULT_EVAL_THRESHOLD
    /\ hard_gates = NoGates
    /\ rubric_scores = NoScores
    /\ eval_result = NoResult
    /\ pc = "validator"
    /\ current_node = "intent_parser"
    /\ constraints \in ValidatorInputs
    /\ missing = MissingCore(constraints)
    /\ ndests = Len(constraints.destinations)
    /\ plan = <<>>
    /\ current_step = NodeStep("INTENT_PARSE")
    /\ current_step_index = 0
    /\ loop_iterations = 0
    /\ termination_reason = ""
    /\ needs_user_input = FALSE
    /\ clarifying_questions = <<>>
    /\ issues = <<>>
    /\ pending_issue = AbsentIssue
    /\ needs_triage = FALSE
    /\ validation_warnings = <<>>
    /\ tool_results = <<>>
    /\ timeout_risk = FALSE
    /\ planning_error = FALSE
    /\ final_answer = FALSE
    /\ answer = <<>>
    /\ attempts = 0
    /\ tool_call_log = <<>>
    /\ llm_call_log = <<>>
    /\ node_error = ""
    /\ graph_steps = 2
    /\ evaluation = ""
    /\ stream_fallback = FALSE
    /\ metrics_record = ""
    /\ user_query = typed_query
    /\ context_hits = home_origin
    /\ pending_fixup = NoPending
    /\ pending_disambiguation = NoPending
    /\ chat_round = 0

ValidatorNext == validator

ValidatorSpec == ValidatorInit /\ [][ValidatorNext]_vars

(* ---------------------------------------------------------------------- *)
(* One orchestrator tick after k passes of the loop                        *)
(* ---------------------------------------------------------------------- *)
(* A plan whose first k steps, weather calls, are done and whose last      *)
(* step, the synthesis, is pending.                                        *)
TickedPlan(k) ==
    [i \in 1..(k + 1) |->
        IF i <= k THEN [PlanStep(i, "TOOL_CALL", "weather_summary", 1) EXCEPT !.status = "done"]
        ELSE PlanStep(i, "SYNTHESIZE", "", 0)]

(* The state before tick k + 1 of a run whose tools all answered.          *)
TickInit ==
    /\ home_origin = ""
    /\ grounded_places = NoGrounding
    /\ context_hits = ""
    /\ typed_query = <<RequestPart("plain")>>
    /\ constraint_overrides = NoOverrides
    /\ ObservabilityIdle
    /\ max_iters \in 1..MaxTickIters
    /\ max_tool_retries = 0
    /\ has_memory = FALSE
    /\ driver = "experiments"
    /\ eval_threshold = DEFAULT_EVAL_THRESHOLD
    /\ hard_gates = NoGates
    /\ rubric_scores = NoScores
    /\ eval_result = NoResult
    /\ pc = "orchestrator"
    /\ missing = {}
    /\ ndests = 1
    /\ termination_reason = ""
    /\ needs_user_input = FALSE
    /\ clarifying_questions = <<>>
    /\ issues = <<>>
    /\ pending_issue = AbsentIssue
    /\ needs_triage = FALSE
    /\ validation_warnings = <<>>
    /\ planning_error = FALSE
    /\ answer = <<>>
    /\ final_answer = FALSE
    /\ attempts = 0
    /\ tool_call_log = <<>>
    /\ llm_call_log = <<>>
    /\ node_error = ""
    /\ evaluation = ""
    /\ stream_fallback = FALSE
    /\ metrics_record = ""
    /\ user_query = typed_query
    /\ constraints = FullConstraints
    /\ pending_fixup = NoPending
    /\ pending_disambiguation = NoPending
    /\ chat_round = 0
    /\ \E k \in 0..max_iters :
          /\ loop_iterations = k
          /\ plan = TickedPlan(k)
          /\ tool_results = [i \in 1..k |-> ToolResult(plan[i])]
          /\ current_node = IF k = 0 THEN "brain_planner" ELSE "evaluate_step"
          /\ current_step = IF k = 0 THEN NodeStep("PLAN_DRAFT")
                            ELSE [plan[k] EXCEPT !.status = "pending"]
          /\ current_step_index = IF k = 0 THEN 0 ELSE k - 1
          /\ timeout_risk = (k > TimeoutRiskThreshold(max_iters))
          /\ graph_steps = 4 + 3 * k

TickNext == orchestrator

TickSpec == TickInit /\ [][TickNext]_vars

(* ---------------------------------------------------------------------- *)
(* _expand_steps_for_destinations on every short list of steps            *)
(* ---------------------------------------------------------------------- *)
(* The tools brain_planner.py:171-172 expands.                             *)
EXPANDED_TOOLS == {"flights_search_links", "hotels_search_links"}

(* Steps as _steps_from_plan_items returns them: an allowed type, an       *)
(* allowed tool on a TOOL_CALL, and the destination argument (0: none).    *)
ExpandSteps ==
    {[step_type |-> "TOOL_CALL", tool_name |-> "flights_search_links", dest |-> d] :
        d \in 0..MaxDests}
    \cup
    {[step_type |-> "TOOL_CALL", tool_name |-> "hotels_search_links", dest |-> 0],
     [step_type |-> "TOOL_CALL", tool_name |-> "weather_summary", dest |-> 1],
     [step_type |-> "SYNTHESIZE", tool_name |-> "", dest |-> 0]}

(* brain_planner holds the steps (in plan) and the destinations of the     *)
(* constraints and is about to call _expand_steps_for_destinations.        *)
ExpandInit ==
    /\ home_origin = ""
    /\ grounded_places = NoGrounding
    /\ context_hits = ""
    /\ typed_query = <<RequestPart("plain")>>
    /\ constraint_overrides = NoOverrides
    /\ ObservabilityIdle
    /\ max_iters = 1
    /\ max_tool_retries = 0
    /\ has_memory = FALSE
    /\ driver = "experiments"
    /\ eval_threshold = DEFAULT_EVAL_THRESHOLD
    /\ hard_gates = NoGates
    /\ rubric_scores = NoScores
    /\ eval_result = NoResult
    /\ pc = "_expand_steps_for_destinations"
    /\ current_node = "brain_planner"
    /\ current_step = NodeStep("PLAN_DRAFT")
    /\ current_step_index = 0
    /\ missing = {}
    /\ ndests \in 0..MaxDests
    /\ plan \in SeqsUpTo(ExpandSteps, MaxSteps)
    /\ loop_iterations = 0
    /\ termination_reason = ""
    /\ needs_user_input = FALSE
    /\ clarifying_questions = <<>>
    /\ issues = <<>>
    /\ pending_issue = AbsentIssue
    /\ needs_triage = FALSE
    /\ validation_warnings = <<>>
    /\ tool_results = <<>>
    /\ timeout_risk = FALSE
    /\ planning_error = FALSE
    /\ answer = <<>>
    /\ final_answer = FALSE
    /\ attempts = 0
    /\ tool_call_log = <<>>
    /\ llm_call_log = <<>>
    /\ node_error = ""
    /\ graph_steps = 4
    /\ evaluation = ""
    /\ stream_fallback = FALSE
    /\ metrics_record = ""
    /\ user_query = typed_query
    /\ constraints = FullConstraints
    /\ pending_fixup = NoPending
    /\ pending_disambiguation = NoPending
    /\ chat_round = 0

(* One call of _expand_steps_for_destinations(steps, dests, tool); pc      *)
(* then names the tool the call was made for.                              *)
expand_steps ==
    /\ pc = "_expand_steps_for_destinations"
    /\ \E tool \in EXPANDED_TOOLS :
          /\ plan' = _expand_steps_for_destinations(plan, ndests, tool)
          /\ pc' = tool
    /\ UNCHANGED <<loopFrame, missing, ndests, current_node, current_step, current_step_index,
                   loop_iterations, termination_reason, needs_user_input,
                   clarifying_questions, issues, pending_issue, needs_triage,
                   validation_warnings, tool_results, timeout_risk, planning_error,
                   final_answer, answer, attempts, tool_call_log, llm_call_log, node_error,
                   graph_steps>>

ExpandNext == expand_steps

ExpandSpec == ExpandInit /\ [][ExpandNext]_vars

(* ---------------------------------------------------------------------- *)
(* The brain planner on plan lists around the item cap                     *)
(* ---------------------------------------------------------------------- *)
WeatherItem == [step_type |-> "TOOL_CALL", tool_name |-> "weather_summary", dest |-> 1]

(* A list of n items: weather calls, with item `other` at position j and a *)
(* flights call without a destination argument at position k (position 0: *)
(* nowhere).                                                               *)
LongPlan(n, k, j, other) ==
    [i \in 1..n |->
        IF i = k THEN [step_type |-> "TOOL_CALL", tool_name |-> "flights_search_links", dest |-> 0]
        ELSE IF i = j THEN other
        ELSE WeatherItem]

LongPlans ==
    {LongPlan(n, k, j, other) :
        n \in (PLAN_ITEM_CAP - 1)..(PLAN_ITEM_CAP + MaxOverCap),
        k \in {0, 1, PLAN_ITEM_CAP, PLAN_ITEM_CAP + 1},
        j \in {0, 2, PLAN_ITEM_CAP + 1},
        other \in LLMItems}

(* The graph has reached the brain planner with complete constraints that  *)
(* name 0 to MaxDests destinations.                                        *)
PlanInit ==
    /\ home_origin = ""
    /\ grounded_places = NoGrounding
    /\ context_hits = ""
    /\ typed_query = <<RequestPart("plain")>>
    /\ constraint_overrides = NoOverrides
    /\ ObservabilityIdle
    /\ max_iters \in 1..MaxItersBound
    /\ max_tool_retries = 0
    /\ has_memory = FALSE
    /\ driver = "experiments"
    /\ eval_threshold = DEFAULT_EVAL_THRESHOLD
    /\ hard_gates = NoGates
    /\ rubric_scores = NoScores
    /\ eval_result = NoResult
    /\ pc = "brain_planner"
    /\ current_node = "validator"
    /\ current_step = NodeStep("VALIDATE_INPUTS")
    /\ current_step_index = 0
    /\ missing = {}
    /\ ndests \in 0..MaxDests
    /\ plan = <<>>
    /\ loop_iterations = 0
    /\ termination_reason = ""
    /\ needs_user_input = FALSE
    /\ clarifying_questions = <<>>
    /\ issues = <<>>
    /\ pending_issue = AbsentIssue
    /\ needs_triage = FALSE
    /\ validation_warnings = <<>>
    /\ tool_results = <<>>
    /\ timeout_risk = FALSE
    /\ planning_error = FALSE
    /\ answer = <<>>
    /\ final_answer = FALSE
    /\ attempts = 0
    /\ tool_call_log = <<>>
    /\ llm_call_log = <<>>
    /\ node_error = ""
    /\ graph_steps = 3
    /\ evaluation = ""
    /\ stream_fallback = FALSE
    /\ metrics_record = ""
    /\ user_query = typed_query
    /\ constraints = FullConstraints
    /\ pending_fixup = NoPending
    /\ pending_disambiguation = NoPending
    /\ chat_round = 0

(* brain_planner when the LLM returns one of the long lists.               *)
brain_planner_long ==
    /\ pc = "brain_planner"
    /\ current_step' = NodeStep("PLAN_DRAFT")
    /\ \E items \in LongPlans : BrainPlannerReturns(items)
    /\ UNCHANGED <<loopFrame, missing, ndests, loop_iterations, termination_reason,
                   needs_user_input, clarifying_questions, pending_issue, needs_triage,
                   validation_warnings, timeout_risk, final_answer, answer, attempts,
                   tool_call_log, llm_call_log>>

PlanNext == brain_planner_long

PlanSpec == PlanInit /\ [][PlanNext]_vars

(* ---------------------------------------------------------------------- *)
(* The validator's geocode grounding (agents/nodes/validator.py:229-386)   *)
(* ---------------------------------------------------------------------- *)
(* Place names: an IATA code, two ordinary names, a name with a digit.     *)
PlaceNames == {"SFO", "Tokyo", "Paris", "T0kyo"}

(* Lists of 1..MaxDests different destinations.                            *)
DestinationLists ==
    {d \in SeqsUpTo(PlaceNames, MaxDests) :
        d # <<>> /\ \A i, j \in 1..Len(d) : d[i] = d[j] => i = j}

(* What one call of geocode_fn does: a best match, an ambiguous result,    *)
(* no match at all, or an exception.                                       *)
GeocodeOutcomes == {"best", "ambiguous", "none", "raise"}

(* Lines 59-63: the code in upper case, "" for None.                       *)
_normalize_iata(code) == IF code = "SFO" THEN "SFO" ELSE ""

(* Lines 66-85: empty, or a digit in the name (the inputs have no long     *)
(* single-token name).                                                     *)
_is_suspicious_place_name(name) == name \in {"", "T0kyo"}

(* The warning of lines 287 and 364.                                       *)
GeocodeWarning(field, raw) == [kind |-> "geocode_failed", message |-> field, place |-> raw]

PlaceGrounded(g, ws) == [asks |-> FALSE, grounded |-> g, warnings |-> ws, finding |-> Finding(<<>>, NoPending, NoPending)]

PlaceAsks(f, ws) == [asks |-> TRUE, grounded |-> Grounded("none", ""), warnings |-> ws, finding |-> f]

(* Lines 231-303, the origin: grounded["origin"] is written for an IATA    *)
(* code (line 234) and for a best match (line 285) only.                   *)
GroundOrigin(raw, has_geocoder, outcome) ==
    IF _normalize_iata(raw) # "" THEN PlaceGrounded(Grounded("iata", _normalize_iata(raw)), <<>>)
    ELSE IF ~has_geocoder THEN PlaceGrounded(Grounded("none", ""), <<>>)
    ELSE IF outcome = "ambiguous"
    THEN PlaceAsks(Finding(<<Q_AMBIGUOUS_ORIGIN>>, NoPending, Options("origin")), <<>>)
    ELSE IF outcome = "none"
    THEN PlaceAsks(Finding(<<Q_UNKNOWN_ORIGIN>>, FixField("origin"), NoPending), <<>>)
    ELSE IF outcome = "best" THEN PlaceGrounded(Grounded("best", raw), <<>>)
    ELSE IF _is_suspicious_place_name(raw)
    THEN PlaceAsks(Finding(<<Q_UNCHECKED_ORIGIN>>, NoPending, NoPending),
                   <<GeocodeWarning("origin", raw)>>)
    ELSE PlaceGrounded(Grounded("none", ""), <<GeocodeWarning("origin", raw)>>)

(* Lines 307-381, one destination.                                         *)
GroundDestination(raw, outcome) ==
    IF _normalize_iata(raw) # "" THEN PlaceGrounded(Grounded("iata", _normalize_iata(raw)), <<>>)
    ELSE IF outcome = "ambiguous"
    THEN PlaceAsks(Finding(<<Q_AMBIGUOUS_DESTINATION>>, NoPending, Options("destinations")), <<>>)
    ELSE IF outcome = "none"
    THEN PlaceAsks(Finding(<<Q_UNKNOWN_DESTINATION>>, FixField("destinations"), NoPending), <<>>)
    ELSE IF outcome = "best" THEN PlaceGrounded(Grounded("best", raw), <<>>)
    ELSE IF _is_suspicious_place_name(raw)
    THEN PlaceAsks(Finding(<<Q_UNCHECKED_DESTINATION>>, NoPending, NoPending),
                   <<GeocodeWarning("destinations", raw)>>)
    ELSE PlaceGrounded(Grounded("name", raw), <<GeocodeWarning("destinations", raw)>>)

(* Lines 305-381, the loop from destination i on: it returns at the first  *)
(* destination the validator asks about, with the warnings appended so    *)
(* far.                                                                    *)
RECURSIVE GroundDestinations(_, _, _, _, _)
GroundDestinations(dests, outcomes, i, grounded, ws) ==
    IF i > Len(dests) THEN [asks |-> FALSE, grounded |-> grounded, warnings |-> ws,
                            finding |-> Finding(<<>>, NoPending, NoPending)]
    ELSE LET d == GroundDestination(dests[i], outcomes[i]) IN
         IF d.asks THEN [asks |-> TRUE, grounded |-> grounded, warnings |-> ws \o d.warnings,
                         finding |-> d.finding]
         ELSE GroundDestinations(dests, outcomes, i + 1, Append(grounded, d.grounded),
                                 ws \o d.warnings)

(* The validator has been handed complete constraints with ISO dates in    *)
(* order, no saved origin and a request without dates, so lines 118-227    *)
(* change and ask nothing.                                                 *)
PlacesInit ==
    /\ home_origin = ""
    /\ grounded_places = NoGrounding
    /\ typed_query = <<RequestPart("plain")>>
    /\ constraint_overrides = NoOverrides
    /\ ObservabilityIdle
    /\ max_iters = 1
    /\ max_tool_retries = 0
    /\ has_memory = FALSE
    /\ driver = "experiments"
    /\ eval_threshold = DEFAULT_EVAL_THRESHOLD
    /\ hard_gates = NoGates
    /\ rubric_scores = NoScores
    /\ eval_result = NoResult
    /\ pc = "validator"
    /\ current_node = "intent_parser"
    /\ \E o \in PlaceNames, d \in DestinationLists :
          constraints = [TripConstraints EXCEPT !.origin = o, !.destinations = d,
                                                !.start_date = "d1", !.end_date = "d2"]
    /\ missing = MissingCore(constraints)
    /\ ndests = Len(constraints.destinations)
    /\ plan = <<>>
    /\ current_step = NodeStep("INTENT_PARSE")
    /\ current_step_index = 0
    /\ loop_iterations = 0
    /\ termination_reason = ""
    /\ needs_user_input = FALSE
    /\ clarifying_questions = <<>>
    /\ issues = <<>>
    /\ pending_issue = AbsentIssue
    /\ needs_triage = FALSE
    /\ validation_warnings = <<>>
    /\ tool_results = <<>>
    /\ timeout_risk = FALSE
    /\ planning_error = FALSE
    /\ final_answer = FALSE
    /\ answer = <<>>
    /\ attempts = 0
    /\ tool_call_log = <<>>
    /\ llm_call_log = <<>>
    /\ node_error = ""
    /\ graph_steps = 2
    /\ evaluation = ""
    /\ stream_fallback = FALSE
    /\ metrics_record = ""
    /\ user_query = typed_query
    /\ context_hits = ""
    /\ pending_fixup = NoPending
    /\ pending_disambiguation = NoPending
    /\ chat_round = 0

(* The validator on such constraints: lines 229-386, with or without a     *)
(* geocode_fn, whatever each of its calls does.                            *)
validator_places ==
    /\ pc = "validator"
    /\ current_step' = NodeStep("VALIDATE_INPUTS")
    /\ \E has_geocoder \in BOOLEAN, og \in GeocodeOutcomes,
          dg \in [1..Len(constraints.destinations) -> GeocodeOutcomes] :
          LET o == GroundOrigin(constraints.origin, has_geocoder, og)
              d == IF has_geocoder
                   THEN GroundDestinations(constraints.destinations, dg, 1, <<>>, <<>>)
                   ELSE PlaceGrounded(<<>>, <<>>)
          IN  IF o.asks
              THEN /\ validation_warnings' = validation_warnings \o o.warnings
                   /\ ValidatorAsks(o.finding)
                   /\ UNCHANGED grounded_places
              ELSE IF d.asks
              THEN /\ validation_warnings' = validation_warnings \o o.warnings \o d.warnings
                   /\ ValidatorAsks(d.finding)
                   /\ UNCHANGED grounded_places
              ELSE /\ validation_warnings' = validation_warnings \o o.warnings \o d.warnings
                   /\ grounded_places' = [origin |-> o.grounded, destinations |-> d.grounded]
                   /\ needs_user_input' = FALSE
                   /\ clarifying_questions' = <<>>
                   /\ pending_fixup' = NoPending
                   /\ pending_disambiguation' = NoPending
                   /\ UNCHANGED <<constraints, missing, ndests, issues, termination_reason>>
    /\ Returned("validator", _validator_route(needs_user_input'))
    /\ UNCHANGED <<settingsVars, observabilityVars, driverVars, evalFnVars, evaluation,
                   user_query, typed_query, home_origin, context_hits, constraint_overrides,
                   chat_round, plan, current_step_index, loop_iterations, pending_issue,
                   needs_triage, tool_results, timeout_risk, planning_error, final_answer,
                   answer, attempts, tool_call_log, llm_call_log>>

PlacesNext == validator_places

PlacesSpec == PlacesInit /\ [][PlacesNext]_vars

(* ---------------------------------------------------------------------- *)
(* The intent parser on every request and every overrides dict             *)
(* ---------------------------------------------------------------------- *)
RawTexts == {"", "A", " A ", " ", "#"}

RawLists == {<<>>, <<"A">>, <<" A ", " ">>, <<" ">>}

RawBudgets == {"", "A", " A ", "#"}

OverrideInputs ==
    {NoOverrides} \cup
    {ov \in [present : {TRUE},
             keys : {K \in SUBSET Fields : Cardinality(K) <= MaxOverrides},
             origin : RawTexts, destinations : RawLists, start_date : RawTexts,
             end_date : RawTexts, budget_usd : RawBudgets] :
        \A f \in Fields \ ov.keys : ov[f] = NoOverrides[f]}

IntentInit ==
    /\ home_origin = ""
    /\ grounded_places = NoGrounding
    /\ typed_query \in {<<RequestPart(k)>> : k \in RequestKinds}
    /\ constraint_overrides \in OverrideInputs
    /\ GraphInit
    /\ ObservabilityIdle
    /\ max_iters = 1
    /\ max_tool_retries = 0
    /\ has_memory = FALSE
    /\ driver = "cli"
    /\ eval_threshold = DEFAULT_EVAL_THRESHOLD
    /\ hard_gates = NoGates
    /\ rubric_scores = NoScores
    /\ eval_result = NoResult

IntentNext == context_controller \/ intent_parser

IntentSpec == IntentInit /\ [][IntentNext]_vars

(* ---------------------------------------------------------------------- *)
(* chat()'s clarification loop around the nodes before the planner         *)
(* ---------------------------------------------------------------------- *)
ChatInit ==
    /\ home_origin = ""
    /\ grounded_places = NoGrounding
    /\ typed_query = <<RequestPart("plain")>>
    /\ constraint_overrides = NoOverrides
    /\ GraphInit
    /\ ObservabilityIdle
    /\ max_iters = 1
    /\ max_tool_retries = 0
    /\ has_memory = FALSE
    /\ driver = "cli"
    /\ eval_threshold = DEFAULT_EVAL_THRESHOLD
    /\ hard_gates = NoGates
    /\ rubric_scores = NoScores
    /\ eval_result = NoResult

ChatNext ==
    \/ context_controller
    \/ intent_parser
    \/ validator
    \/ chat_clarify
    \/ chat_finish

ChatSpec == ChatInit /\ [][ChatNext]_vars


(* ====================================================================== *)
(* Properties                                                              *)
(* ====================================================================== *)
SamePlanShape == Len(plan') = Len(plan)

StatusChanged(i) == plan'[i].status # plan[i].status

(* C1 (as stated): a step's status only ever goes from pending to done or  *)
(* from pending to blocked; a done or blocked step never changes again.    *)
C1_PendingOnlySource ==
    [][SamePlanShape =>
         \A i \in 1..Len(plan) :
            StatusChanged(i) =>
                /\ plan[i].status = "pending"
                /\ plan'[i].status \in {"done", "blocked"}]_vars

(* C1 (amended): a step's status changes only from pending to done or      *)
(* blocked, by the executor, or from blocked to done, by issue triage;     *)
(* done is the only terminal status and a done step never changes again.   *)
C1_StatusLifecycle ==
    [][SamePlanShape =>
         \A i \in 1..Len(plan) :
            StatusChanged(i) =>
                \/ /\ plan[i].status = "pending"
                   /\ plan'[i].status \in {"done", "blocked"}
                   /\ pc = "executor"
                \/ /\ plan[i].status = "blocked"
                   /\ plan'[i].status = "done"
                   /\ pc = "issue_triage"]_vars

C1_Witness ==
    /\ current_node = "issue_triage"
    /\ \E i \in 1..Len(plan) : plan[i].status = "done" /\ plan[i].notes = 1
    /\ \E i \in 1..Len(plan) : plan[i].status = "done" /\ plan[i].notes = 0

(* C2 (as stated): loop_iterations never exceeds max_iters, and the tick   *)
(* at which loop_iterations becomes equal to max_iters ends the loop with  *)
(* termination_reason = "max_iters".                                       *)
C2_StopsAtEquality ==
    [][/\ loop_iterations' <= max_iters
       /\ (pc = "orchestrator" /\ loop_iterations' = max_iters) =>
             (termination_reason' = "max_iters" /\ pc' = "responder")]_vars

(* C2 (amended): loop_iterations never exceeds max_iters + 1, and the      *)
(* orchestrator ends the loop with termination_reason = "max_iters"        *)
(* exactly on the tick at which loop_iterations becomes max_iters + 1.     *)
C2_StopsWhenExceeded ==
    [][/\ loop_iterations' <= max_iters + 1
       /\ pc = "orchestrator" =>
             /\ (termination_reason' = "max_iters") <=> (loop_iterations' = max_iters + 1)
             /\ (loop_iterations' = max_iters + 1) => pc' = "responder"]_vars

C2_Witness ==
    /\ current_node = "orchestrator"
    /\ loop_iterations = max_iters + 1
    /\ termination_reason = "max_iters"


AllRaise(log) == log # <<>> /\ \A i \in 1..Len(log) : log[i] = "raise"

ToolStepSelected ==
    current_step.step_type = "TOOL_CALL" /\ current_step.tool_name # ""

(* The executor has just returned from a TOOL_CALL pass in which every     *)
(* attempt raised.                                                         *)
ToolExhausted ==
    /\ current_node = "executor"
    /\ pc # "__error__"
    /\ ToolStepSelected
    /\ AllRaise(tool_call_log)

TriageThenOrchestrator ==
    [][ToolExhausted =>
          /\ pc = "issue_triage"
          /\ pc' = "orchestrator"
          /\ ~needs_user_input']_vars

NextPendingStillSelected ==
    [][(pc = "orchestrator" /\ current_node = "issue_triage"
          /\ loop_iterations' <= max_iters /\ PendingIndices(plan) # {}) =>
          /\ pc' = "executor"
          /\ current_step'.status = "pending"
          /\ current_step' = plan[current_step_index' + 1]
          /\ \A j \in 0..(current_step_index' - 1) : plan[j + 1].status # "pending"]_vars

C4_AttemptsBounded ==
    (current_node = "executor" /\ pc # "__error__" /\ ToolStepSelected) =>
        /\ attempts = Len(tool_call_log)
        /\ Len(tool_call_log) >= 1
        /\ Len(tool_call_log) <= 1 + max_tool_retries
        /\ \A i \in 1..(Len(tool_call_log) - 1) : tool_call_log[i] = "raise"
        /\ AllRaise(tool_call_log) => Len(tool_call_log) = 1 + max_tool_retries

C4_Witness ==
    /\ ToolExhausted
    /\ max_tool_retries = 1
    /\ tool_call_log = <<"raise", "raise">>

(* C5: when every attempt of a TOOL_CALL step raises, the executor returns *)
(* normally, appends exactly one tool_error issue (major for               *)
(* flights_search_links and hotels_search_links, minor otherwise), makes   *)
(* it the pending issue, sets needs_triage and marks the step blocked.     *)
C5_ExhaustionBecomesIssue ==
    [][(pc = "executor" /\ ToolStepSelected /\ AllRaise(tool_call_log')) =>
          /\ pc' = "issue_triage"
          /\ node_error' = ""
          /\ Len(issues') = Len(issues) + 1
          /\ SubSeq(issues', 1, Len(issues)) = issues
          /\ LET issue == issues'[Len(issues')] IN
                /\ issue.kind = "tool_error"
                /\ issue.severity =
                       IF current_step.tool_name \in
                             {"flights_search_links", "hotels_search_links"}
                       THEN "major" ELSE "minor"
                /\ issue.step_id = current_step.id
                /\ pending_issue' = issue
          /\ needs_triage'
          /\ plan'[current_step_index + 1].status = "blocked"
          /\ plan'[current_step_index + 1].id = current_step.id]_vars

C5_Witness ==
    /\ ToolExhausted
    /\ pending_issue.kind = "tool_error"
    /\ pending_issue.severity = "minor"
    /\ \E i \in 1..Len(issues) : issues[i].kind = "tool_error" /\ issues[i].severity = "major"

(* C6: issue triage with a pending tool-failure issue of any severity      *)
(* marks the referenced step done with a skip note, appends one validation *)
(* warning, empties pending_issue, clears needs_triage and never sets      *)
(* needs_user_input.                                                       *)
C6_TriageAlwaysSkips ==
    [][(pc = "issue_triage" /\ pending_issue.kind = "tool_error") =>
          /\ \E i \in 1..Len(plan) :
                /\ plan[i].id = pending_issue.step_id
                /\ plan'[i].status = "done"
                /\ plan'[i].notes = plan[i].notes + 1
                /\ \A j \in (1..Len(plan)) \ {i} : plan'[j] = plan[j]
          /\ Len(plan') = Len(plan)
          /\ Len(validation_warnings') = Len(validation_warnings) + 1
          /\ SubSeq(validation_warnings', 1, Len(validation_warnings)) = validation_warnings
          /\ pending_issue' = EmptyIssue
          /\ ~needs_triage'
          /\ ~needs_user_input']_vars

C6_Witness ==
    /\ current_node = "issue_triage"
    /\ pending_issue = EmptyIssue
    /\ validation_warnings # <<>>
    /\ validation_warnings[Len(validation_warnings)].kind = "tool_error"
    /\ \E i \in 1..Len(plan) :
          plan[i].tool_name = "flights_search_links" /\ plan[i].notes = 1
    /\ \E i \in 1..Len(plan) :
          plan[i].tool_name = "weather_summary" /\ plan[i].notes = 1


(* C7: the nodes of a run execute along the fixed topology: context then   *)
(* intent; intent to end iff needs_user_input, else validator; validator   *)
(* to end iff needs_user_input, else brain_planner then orchestrator;      *)
(* orchestrator to responder iff termination_reason is finalized or        *)
(* max_iters, else executor; executor to issue_triage iff needs_triage,    *)
(* else evaluate_step; both back to orchestrator; responder, export_ics,   *)
(* evaluate_final, memory_writer, end.  A node that raises ends the path.  *)
C7_FixedTopology ==
    [][(pc' # pc /\ pc \notin {"__end__", "__error__"}) =>
          /\ current_node' = pc
          /\ \/ pc' = "__error__"
             \/ pc = "context_controller" /\ pc' = "intent_parser"
             \/ pc = "intent_parser" /\ needs_user_input' /\ pc' = "__end__"
             \/ pc = "intent_parser" /\ ~needs_user_input' /\ pc' = "validator"
             \/ pc = "validator" /\ needs_user_input' /\ pc' = "__end__"
             \/ pc = "validator" /\ ~needs_user_input' /\ pc' = "brain_planner"
             \/ pc = "brain_planner" /\ pc' = "orchestrator"
             \/ /\ pc = "orchestrator"
                /\ termination_reason' \in {"finalized", "max_iters"}
                /\ pc' = "responder"
             \/ /\ pc = "orchestrator"
                /\ termination_reason' \notin {"finalized", "max_iters"}
                /\ pc' = "executor"
             \/ pc = "executor" /\ needs_triage' /\ pc' = "issue_triage"
             \/ pc = "executor" /\ ~needs_triage' /\ pc' = "evaluate_step"
             \/ pc = "issue_triage" /\ pc' = "orchestrator"
             \/ pc = "evaluate_step" /\ pc' = "orchestrator"
             \/ pc = "responder" /\ pc' = "export_ics"
             \/ pc = "export_ics" /\ pc' = "evaluate_final"
             \/ pc = "evaluate_final" /\ pc' = "memory_writer"
             \/ pc = "memory_writer" /\ pc' = "__end__"]_vars

C7_Witness ==
    /\ pc = "__end__"
    /\ current_node = "memory_writer"
    /\ termination_reason = "finalized"
    /\ \E i \in 1..Len(plan) : plan[i].notes = 1
    /\ \E i \in 1..Len(plan) : plan[i].status = "done" /\ plan[i].notes = 0

(* C8: an orchestrator tick within the iteration budget selects the        *)
(* pending step with the smallest index, copies it into current_step and   *)
(* sets current_step_index to that index; when no step is pending it sets  *)
(* termination_reason = "finalized".                                       *)
C8_SelectsFirstPending ==
    [][(pc = "orchestrator" /\ loop_iterations' <= max_iters) =>
          IF \E i \in 1..Len(plan) : plan[i].status = "pending"
          THEN /\ current_step_index' \in 0..(Len(plan) - 1)
               /\ plan[current_step_index' + 1].status = "pending"
               /\ \A j \in 1..current_step_index' : plan[j].status # "pending"
               /\ current_step' = plan[current_step_index' + 1]
               /\ termination_reason' = termination_reason
          ELSE termination_reason' = "finalized"]_vars

C8_Witness ==
    /\ current_node = "orchestrator"
    /\ pc = "executor"
    /\ current_step_index = 1
    /\ current_step.id = 2
    /\ plan[1].status = "done"
    /\ Len(plan) >= 3

C10_PendingIssueStepBlocked ==
    /\ pending_issue \notin {AbsentIssue, EmptyIssue} =>
          \E i \in 1..Len(plan) :
             plan[i].id = pending_issue.step_id /\ plan[i].status = "blocked"
    /\ \A i \in 1..Len(plan) :
          plan[i].status = "done" => pending_issue.step_id # plan[i].id

C10_Witness ==
    /\ pc = "issue_triage"
    /\ pending_issue.kind = "tool_error"
    /\ \E i \in 1..Len(plan) : plan[i].status = "done" /\ plan[i].notes = 1
    /\ \E i \in 1..Len(plan) : plan[i].status = "blocked"

(* C11: at every point of a run every entry of tool_results carries the id *)
(* of a step of the current plan.                                          *)
C11_ToolResultsReferencePlan ==
    \A i \in 1..Len(tool_results) :
        \E j \in 1..Len(plan) : plan[j].id = tool_results[i].step_id

C11_Witness ==
    /\ Len(tool_results) >= 2
    /\ tool_results[1].step_id # tool_results[2].step_id
    /\ \E j \in 1..Len(plan) : plan[j].status = "done" /\ plan[j].notes = 1

PlanStepSelected == current_step.id # 0

IndexInRange == current_step_index >= 0 /\ current_step_index <= Len(plan)

AllowedReasons == {"finalized", "max_iters", "asked_user", "error"}

(* The driver is through with the run: it wrote the metrics record, or the *)
(* exception of a node left it.                                            *)
RunTerminated == pc \in {"__done__", "__crashed__"}

(* C14: across the orchestrator ticks of a run loop_iterations strictly    *)
(* increases, and whenever a run has terminated termination_reason is one  *)
(* of finalized, max_iters, asked_user, error.                             *)
C14_IncreasingUntilAllowedReason ==
    [][/\ pc = "orchestrator" => loop_iterations' > loop_iterations
       /\ RunTerminated' => termination_reason' \in AllowedReasons]_vars

(* C18: whatever overall_status the final evaluation computes, the run     *)
(* goes from evaluate_final to memory_writer and stops after it; a failed  *)
(* evaluation appends one evaluation_fail issue and nothing else, and      *)
(* neither node changes termination_reason or needs_user_input.            *)
C18_EvaluationNeverChangesFlow ==
    [][/\ pc = "evaluate_final" =>
             /\ pc' = "memory_writer"
             /\ evaluation' \in {"good", "needs_work", "failed"}
             /\ termination_reason' = termination_reason
             /\ needs_user_input' = needs_user_input
             /\ IF evaluation' = "failed"
                THEN /\ Len(issues') = Len(issues) + 1
                     /\ SubSeq(issues', 1, Len(issues)) = issues
                     /\ issues'[Len(issues')].kind = "evaluation_fail"
                ELSE issues' = issues
       /\ pc = "memory_writer" =>
             /\ pc' \in {"__end__", "__error__"}
             /\ evaluation' = evaluation
             /\ issues' = issues
             /\ termination_reason' = termination_reason
             /\ needs_user_input' = needs_user_input]_vars

C18_Witness ==
    /\ pc = "__end__"
    /\ current_node = "memory_writer"
    /\ evaluation = "failed"
    /\ issues # <<>>
    /\ issues[Len(issues)].kind = "evaluation_fail"
    /\ termination_reason = "finalized"
    /\ ~needs_user_input

(* C19: overall_status is good exactly when all five hard gates are true   *)
(* and the rubric average is at least eval_threshold, needs_work exactly   *)
(* when all gates are true and the average is below it, and failed exactly *)
(* when at least one gate is false.                                        *)
C19_StatusFromGatesAndAverage ==
    eval_result # NoResult =>
        LET gates_ok == /\ eval_result.hard_gates["constraint_completeness"]
                        /\ eval_result.hard_gates["no_fabricated_real_time_facts"]
                        /\ eval_result.hard_gates["link_validity_format"]
                        /\ eval_result.hard_gates["calendar_export_correctness"]
                        /\ eval_result.hard_gates["safety_clarity_disclaimer"]
            total == eval_result.rubric_scores["relevance"]
                     + eval_result.rubric_scores["feasibility"]
                     + eval_result.rubric_scores["completeness"]
                     + eval_result.rubric_scores["specificity"]
                     + eval_result.rubric_scores["coherence"]
            average_ok == total >= 5 * eval_threshold
        IN  /\ eval_result.hard_gates = hard_gates
            /\ eval_result.rubric_scores = rubric_scores
            /\ (eval_result.overall_status = "good") <=> (gates_ok /\ average_ok)
            /\ (eval_result.overall_status = "needs_work") <=> (gates_ok /\ ~average_ok)
            /\ (eval_result.overall_status = "failed") <=> ~gates_ok

C19_Witness ==
    /\ eval_result.overall_status = "good"
    /\ eval_threshold = 35
    /\ rubric_scores["relevance"] = 30
    /\ rubric_scores["feasibility"] = 40
    /\ rubric_scores["completeness"] = 35
    /\ rubric_scores["specificity"] = 30
    /\ rubric_scores["coherence"] = 40

(* C20: when a node raises an exception it does not handle, the driver     *)
(* sets termination_reason = "error", writes the final metrics record with *)
(* status "error" and ends the run without executing another node.         *)
C20_DriverRecordsError ==
    [][pc = "__error__" =>
          /\ termination_reason' = "error"
          /\ metrics_record' = "error"
          /\ pc' = "__done__"]_vars

(* C13: whenever needs_user_input is true, termination_reason is           *)
(* "asked_user" and clarifying_questions is non-empty.                     *)
C13_InputNeededMeansAsked ==
    needs_user_input => termination_reason = "asked_user" /\ clarifying_questions # <<>>

(* The validator found something blocking and the graph stopped to ask.    *)
C13_Witness ==
    /\ needs_user_input
    /\ current_node = "validator"
    /\ pc = "__end__"
    /\ pending_fixup # NoPending

IntentParserReturns == pc = "intent_parser" /\ pc' # "__error__"

CoreComplete(c) ==
    c.destinations # <<>> /\ c.start_date # "" /\ c.end_date # "" /\ c.origin # ""

(* C15: when the intent parser returns, needs_user_input is true exactly   *)
(* when destination, start_date, end_date or origin is missing from the    *)
(* constraints it stored (after LLM parsing, heuristic fill and            *)
(* overrides); it then asks between 1 and 4 questions and sets             *)
(* termination_reason to "asked_user"; with the four present it asks       *)
(* nothing, whether or not the budget is missing.                          *)
C15_AsksIffCoreMissing ==
    [][IntentParserReturns =>
          /\ needs_user_input' <=> ~CoreComplete(constraints')
          /\ needs_user_input' =>
                /\ Len(clarifying_questions') >= 1
                /\ Len(clarifying_questions') <= 4
                /\ termination_reason' = "asked_user"
          /\ CoreComplete(constraints') => clarifying_questions' = <<>>]_vars

(* The parser stored complete core fields and no budget, and did not ask.  *)
C15_Witness ==
    /\ current_node = "intent_parser"
    /\ pc = "validator"
    /\ CoreComplete(constraints)
    /\ constraints.budget_usd = ""
    /\ ~needs_user_input
    /\ clarifying_questions = <<>>

WellFormedText(v) == v \in {"A", " A "}

WellFormedList(v) == v \in {<<"A">>, <<" A ", " ">>}

(* C16: when the intent parser returns, every field for which              *)
(* constraint_overrides held a well-formed value is stored with that value *)
(* (trimmed), whatever the LLM and the heuristics read, and                *)
(* constraint_overrides holds no key.                                      *)
C16_OverridesWinAndAreCleared ==
    [][IntentParserReturns =>
          /\ \A f \in constraint_overrides.keys \cap (TextFields \cup {"budget_usd"}) :
                WellFormedText(constraint_overrides[f]) => constraints'[f] = "A"
          /\ ("destinations" \in constraint_overrides.keys
                 /\ WellFormedList(constraint_overrides.destinations))
                => constraints'.destinations = <<"A">>
          /\ constraint_overrides'.keys = {}]_vars

InNotes(c, note) == \E i \in 1..Len(c.notes) : c.notes[i] = note

(* The heuristics had filled the origin and the override replaced it.      *)
C16_Witness ==
    /\ current_node = "intent_parser"
    /\ pc # "__error__"
    /\ constraints.origin = "A"
    /\ InNotes(constraints, FilledNote("origin"))
    /\ InNotes(constraints, OverrideNote("origin"))
    /\ constraint_overrides = EmptyOverrides

HeaderCount(q) == Cardinality({i \in 1..Len(q) : q[i].kind = "header"})

Contains(q, part) == \E i \in 1..Len(q) : q[i] = part

(* C17: when chat() appends answers to a query that already carries a      *)
(* details block, the new query has exactly one "Additional details:"      *)
(* header and contains every answer the old query contained as well as an  *)
(* answer to one of the questions just asked.                              *)
C17_AppendAccumulatesAnswers ==
    [][(pc = "__end__" /\ pc' = "context_controller" /\ HasDetails(user_query)) =>
          /\ HeaderCount(user_query') = 1
          /\ \A i \in 1..Len(user_query) :
                user_query[i].kind = "answer" => Contains(user_query', user_query[i])
          /\ \E j \in 1..Len(user_query') :
                /\ user_query'[j].kind = "answer"
                /\ \E k \in 1..Len(clarifying_questions) :
                      clarifying_questions[k] = user_query'[j].question]_vars

Ordered(file) == \A i, j \in 1..Len(file) : i < j => file[i].seq < file[j].seq

(* C21: in selective mode nothing is in the trace while no signal is true; *)
(* when set_signal sets a signal through the controller, the buffered      *)
(* events are appended to the trace in the order they were traced and the  *)
(* buffer is emptied; every event traced after that is appended at once;   *)
(* the trace is always in emission order.                                  *)
C21_SelectiveBuffersThenWritesInOrder ==
    [][telemetry_mode = "selective" =>
          /\ ~AnySignal(timeout_risk', planning_error') => trace_jsonl' = <<>>
          /\ (planning_error' /\ ~planning_error /\ ~_escalated) =>
                /\ _escalated'
                /\ trace_jsonl' = trace_jsonl \o _buffer
                /\ _buffer' = <<>>
          /\ (_escalated /\ events_traced' = events_traced + 1) =>
                /\ Len(trace_jsonl') = Len(trace_jsonl) + 1
                /\ trace_jsonl'[Len(trace_jsonl')].seq = events_traced'
          /\ Ordered(trace_jsonl')]_vars

(* Two events were buffered and flushed, and a later one written at once.  *)
C21_Witness ==
    /\ telemetry_mode = "selective"
    /\ _escalated
    /\ buffer_size >= 2
    /\ Len(trace_jsonl) = 3
    /\ _buffer = <<>>

(* C22: in selective mode, once any signal of the state is true, whichever *)
(* way it was set, the controller has escalated by the time the next event *)
(* has been traced.                                                        *)
C22_AnySignalEscalatesByNextEvent ==
    [][(telemetry_mode = "selective" /\ AnySignal(timeout_risk, planning_error)
          /\ events_traced' = events_traced + 1) => _escalated']_vars

InCallOrder(file) == \A i, j \in 1..Len(file) : i < j => file[i].n < file[j].n

AppendsOne(old, new) == Len(new) = Len(old) + 1 /\ SubSeq(new, 1, Len(old)) = old

C24_OneDisclaimerNoCurrency ==
    current_node = "responder" =>
        /\ Occurrences(answer, DISCLAIMER) = 1
        /\ ~HasLine(answer, "price")

(* C25: the responder applied to the state it has just returned returns    *)
(* the same answer.                                                        *)
C25_ResponderIsIdempotent ==
    current_node = "responder" =>
        Respond(answer, constraints, ToolNamesOf(tool_results)) = answer

IsoDate(text) == DayOf(text) # 0

NoteCount(c, note) == Cardinality({i \in 1..Len(c.notes) : c.notes[i] = note})

ValidatorAccepts == pc = "validator" /\ pc' = "brain_planner"

(* C26: when the validator accepts constraints whose two dates are ISO     *)
(* dates, the dates it stores are in order; a range that came inverted is  *)
(* stored swapped, with one swap note added; a range that came in order is *)
(* stored as it came, with no swap note added.                             *)
C26_AcceptedDatesOrdered ==
    [][(/\ ValidatorAccepts
        /\ IsoDate(constraints.start_date)
        /\ IsoDate(constraints.end_date)) =>
          /\ DayOf(constraints'.start_date) <= DayOf(constraints'.end_date)
          /\ IF DayOf(constraints.end_date) < DayOf(constraints.start_date)
             THEN /\ constraints'.start_date = constraints.end_date
                  /\ constraints'.end_date = constraints.start_date
                  /\ NoteCount(constraints', SWAP_NOTE) = NoteCount(constraints, SWAP_NOTE) + 1
             ELSE /\ constraints'.start_date = constraints.start_date
                  /\ constraints'.end_date = constraints.end_date
                  /\ NoteCount(constraints', SWAP_NOTE) = NoteCount(constraints, SWAP_NOTE)]_vars

(* An inverted range was accepted and is stored swapped.                   *)
C26_Witness ==
    /\ current_node = "validator"
    /\ pc = "brain_planner"
    /\ constraints.start_date = "d1"
    /\ constraints.end_date = "d2"
    /\ NoteCount(constraints, SWAP_NOTE) = 1

SavedOriginDiffers ==
    /\ context_hits # ""
    /\ constraints.origin # ""
    /\ Lower(Strip(constraints.origin)) # Lower(Strip(context_hits))

PendingCount(p) == Cardinality(PendingIndices(p))

TickBound == loop_iterations <= Min(Len(plan), max_iters) + 1

C29_SuppliedValuesPersist ==
    [][(pc = "intent_parser" /\ pc' \in {"validator", "__end__"}) =>
          /\ (constraints.destinations # <<>> /\ constraints.destinations[1] = "A") =>
                /\ constraints'.destinations = constraints.destinations
                /\ ~Contains(clarifying_questions', Q_DESTINATION)
          /\ constraints.start_date = "A" =>
                /\ constraints'.start_date = "A"
                /\ ~Contains(clarifying_questions', Q_START_DATE)
          /\ constraints.end_date = "A" =>
                /\ constraints'.end_date = "A"
                /\ ~Contains(clarifying_questions', Q_END_DATE)
          /\ constraints.origin = "A" =>
                /\ constraints'.origin = "A"
                /\ ~Contains(clarifying_questions', Q_ORIGIN)]_vars

TriagePending == needs_triage \/ pending_issue \notin {AbsentIssue, EmptyIssue}

(* C31: needs_triage is true and pending_issue holds an issue only after   *)
(* an executor pass that blocked its step and before the issue triage that *)
(* follows it, and then both hold together; at every orchestrator tick and *)
(* every executor entry both are clear, and an executor pass that leaves   *)
(* its step done goes on to evaluate_step, whatever failed before.         *)
C31_TriageFlagsOnlyBeforeTriage ==
    /\ [](TriagePending =>
            /\ pc = "issue_triage"
            /\ current_node = "executor"
            /\ needs_triage
            /\ pending_issue \notin {AbsentIssue, EmptyIssue}
            /\ plan[current_step_index + 1].status = "blocked")
    /\ []((pc \in {"orchestrator", "executor"}) => ~TriagePending)
    /\ [][(/\ pc = "executor"
           /\ pc' # "__error__"
           /\ current_step # EmptyStep
           /\ plan'[current_step_index + 1].status = "done") =>
             pc' = "evaluate_step"]_vars

(* A step succeeded after an earlier step had failed and been triaged.     *)
C31_Witness ==
    /\ pc = "evaluate_step"
    /\ current_node = "executor"
    /\ issues # <<>>
    /\ plan[current_step_index + 1].status = "done"
    /\ ~TriagePending

(* ---------------------------------------------------------------------- *)
(* Effect of one executor pass                                             *)
(* ---------------------------------------------------------------------- *)
(* What a pass on the selected step did to the plan, the issues and the    *)
(* tool results.                                                           *)
OnlySelectedStatusChanged ==
    LET i == current_step_index + 1 IN
    /\ Len(plan') = Len(plan)
    /\ \A j \in 1..Len(plan) : j # i => plan'[j] = plan[j]
    /\ plan[i].status = "pending"
    /\ plan'[i].status \in {"done", "blocked"}
    /\ plan'[i] = [plan[i] EXCEPT !.status = plan'[i].status]

BlockedIffIssueAndTriage ==
    LET i == current_step_index + 1 IN
    /\ plan'[i].status = "blocked" <=>
          (Len(issues') = Len(issues) + 1 /\ needs_triage')
    /\ plan'[i].status = "blocked" =>
          /\ issues' = Append(issues, pending_issue')
          /\ pending_issue'.step_id = plan[i].id
          /\ tool_results' = tool_results
    /\ plan'[i].status = "done" =>
          /\ issues' = issues
          /\ ~needs_triage'
          /\ IF plan[i].step_type = "TOOL_CALL"
             THEN /\ Len(tool_results') = Len(tool_results) + 1
                  /\ SubSeq(tool_results', 1, Len(tool_results)) = tool_results
                  /\ tool_results'[Len(tool_results')].step_id = plan[i].id
             ELSE tool_results' = tool_results

C33_RecursionLimitNeverReached ==
    /\ graph_steps <= 3 * Min(Len(plan), max_iters) + 9
    /\ graph_steps < recursion_limit(max_iters)
    /\ \A m \in 1..MaxItersChecked : 3 * m + 9 < recursion_limit(m)

(* A run that used up max_iters = 2 and went on to its end.                *)
C33_Witness ==
    /\ pc = "__end__"
    /\ current_node = "memory_writer"
    /\ termination_reason = "max_iters"
    /\ max_iters = 2
    /\ graph_steps = 15

(* ---------------------------------------------------------------------- *)
(* Timeout risk                                                            *)
(* ---------------------------------------------------------------------- *)
(* C34: after a tick the timeout_risk signal is true exactly when          *)
(* loop_iterations, as the tick incremented it, is at least                *)
(* 0.8 * max_iters.                                                        *)
C34_TimeoutRiskFromFourFifths ==
    [][pc = "orchestrator" =>
          (timeout_risk' <=> 10 * loop_iterations' >= 8 * max_iters)]_vars

(* ---------------------------------------------------------------------- *)
(* C35: the synthesis call is made once and its exception is fatal         *)
(* ---------------------------------------------------------------------- *)
SynthesizeStepSelected == current_step # EmptyStep /\ current_step.step_type = "SYNTHESIZE"

(* C35: an executor pass on a SYNTHESIZE step calls llm.invoke_text at most
   once; when that call raises, the exception leaves the executor as a node
   error, no Issue is appended, and the selected step is still pending with
   final_answer as it was. *)
C35_SynthesisCalledOnceAndRaiseIsFatal ==
    [][(pc = "executor" /\ SynthesizeStepSelected) =>
         /\ Len(llm_call_log') <= 1
         /\ (llm_call_log' = <<"raise">>) =>
              /\ pc' = "__error__"
              /\ node_error' = "executor"
              /\ issues' = issues
              /\ pending_issue' = pending_issue
              /\ plan' = plan
              /\ plan'[current_step_index + 1].status = "pending"
              /\ final_answer' = final_answer
              /\ answer' = answer]_vars

C35_Witness ==
    /\ pc = "__error__"
    /\ node_error = "executor"
    /\ SynthesizeStepSelected
    /\ llm_call_log = <<"raise">>
    /\ plan[current_step_index + 1].status = "pending"
    /\ ~final_answer
    /\ issues = <<>>

(* ---------------------------------------------------------------------- *)
(* C36: what multi-destination expansion keeps                             *)
(* ---------------------------------------------------------------------- *)
StepsOfTool(steps, tool) == {i \in 1..Len(steps) : steps[i].tool_name = tool}

(* The expansion is due: more than one destination, a step of the tool,    *)
(* and fewer distinct destination arguments on its steps than destinations. *)
ExpansionDue(steps, nd, tool) ==
    /\ nd > 1
    /\ StepsOfTool(steps, tool) # {}
    /\ Cardinality({steps[i].dest : i \in StepsOfTool(steps, tool)} \ {0}) < nd

PerDestinationCopies(s, nd) == [d \in 1..nd |-> [s EXCEPT !.dest = d]]

(* The steps with the first step of the tool replaced by its copies and    *)
(* every other step left where it was.                                     *)
FirstStepReplaced(steps, nd, tool) ==
    LET k == CHOOSE i \in StepsOfTool(steps, tool) : \A j \in StepsOfTool(steps, tool) : i <= j
    IN  SubSeq(steps, 1, k - 1) \o PerDestinationCopies(steps[k], nd)
            \o SubSeq(steps, k + 1, Len(steps))

(* C36: when the expansion of a tool is due, the result is the list with
   the first step of that tool replaced by one copy per destination, in
   destination order, and every other step kept once, in its original
   order; when it is not due the list is returned as it was. *)
C36_ExpansionReplacesOnlyFirstStep ==
    [][pc = "_expand_steps_for_destinations" =>
         plan' = IF ExpansionDue(plan, ndests, pc')
                 THEN FirstStepReplaced(plan, ndests, pc')
                 ELSE plan]_vars

(* The same with every later step of the tool left out.                    *)
FirstStepReplacedLaterDropped(steps, nd, tool) ==
    LET k == CHOOSE i \in StepsOfTool(steps, tool) : \A j \in StepsOfTool(steps, tool) : i <= j
    IN  SubSeq(steps, 1, k - 1) \o PerDestinationCopies(steps[k], nd)
            \o SelectSeq(SubSeq(steps, k + 1, Len(steps)), LAMBDA s : s.tool_name # tool)

(* C36, amended: when the expansion of a tool is due, the first step of
   that tool is replaced by one copy per destination, in destination order,
   every later step of that tool is dropped, and every step of another tool
   or without a tool is kept once, in its original order; when it is not
   due the list is returned as it was. *)
C36_ExpansionReplacesFirstDropsLater ==
    [][pc = "_expand_steps_for_destinations" =>
         plan' = IF ExpansionDue(plan, ndests, pc')
                 THEN FirstStepReplacedLaterDropped(plan, ndests, pc')
                 ELSE plan]_vars

(* A list of MaxSteps steps came back one step longer: its only flights    *)
(* step was replaced by two copies between the steps around it.            *)
C36_Witness ==
    /\ pc = "flights_search_links"
    /\ ndests = 2
    /\ Len(plan) = MaxSteps + 1
    /\ plan[1].tool_name = "weather_summary"
    /\ plan[2] = [step_type |-> "TOOL_CALL", tool_name |-> "flights_search_links", dest |-> 1]
    /\ plan[3] = [step_type |-> "TOOL_CALL", tool_name |-> "flights_search_links", dest |-> 2]
    /\ plan[4].step_type = "SYNTHESIZE"

(* ---------------------------------------------------------------------- *)
(* C37: the size and the contents of the stored plan                       *)
(* ---------------------------------------------------------------------- *)
(* C37: the plan the brain planner stores never has more than 12 steps,
   every step has an allowed type and every TOOL_CALL step names an
   allowed tool, multi-destination expansion included. *)
C37_StoredPlanWithinCap ==
    /\ Len(plan) <= PLAN_ITEM_CAP
    /\ \A i \in 1..Len(plan) :
          /\ plan[i].step_type \in ALLOWED_STEP_TYPES
          /\ plan[i].step_type = "TOOL_CALL" => plan[i].tool_name \in ALLOWED_TOOLS

(* ---------------------------------------------------------------------- *)
(* C38: the fallback to the deterministic planner                          *)
(* ---------------------------------------------------------------------- *)
(* The brain planner has just appended its planning_error Issue.           *)
PlanningErrorRecorded ==
    /\ pc = "brain_planner"
    /\ Len(issues') = Len(issues) + 1
    /\ issues'[Len(issues')].kind = "planning_error"

OnlyLastIsSynthesize(p) ==
    /\ p # <<>>
    /\ \A i \in 1..Len(p) : (p[i].step_type = "SYNTHESIZE") <=> (i = Len(p))

(* C38: a brain planner pass whose LLM output yields no usable step appends
   a planning_error Issue, sets signals.planning_error and stores the plan
   of the deterministic fallback planner, whose last step is its only
   SYNTHESIZE step. *)
C38_NoUsableStepFallsBack ==
    [][PlanningErrorRecorded =>
         /\ planning_error'
         /\ plan' = planner(ndests)
         /\ OnlyLastIsSynthesize(plan')
         /\ node_error' = ""]_vars

(* ---------------------------------------------------------------------- *)
(* C39: the events and counters of instrument_node                         *)
(* ---------------------------------------------------------------------- *)
EventsOf(kind) == {i \in 1..Len(node_events) : node_events[i].event = kind}

(* C39: the events come in pairs, one per node execution started: a
   node_enter followed by exactly one node_exit or node_error of the same
   node; graph_node_transitions is the number of executions started and
   graph_node_errors the number that raised, and an execution that logged
   node_error has raised to the runtime. *)
C39_NodeEventsPairUpAndCountersMatch ==
    /\ Len(node_events) = 2 * graph_steps
    /\ \A k \in 1..graph_steps :
          /\ node_events[2 * k - 1].event = "node_enter"
          /\ node_events[2 * k].event \in {"node_exit", "node_error"}
          /\ node_events[2 * k].graph_node = node_events[2 * k - 1].graph_node
    /\ graph_node_transitions = graph_steps
    /\ graph_node_transitions = Cardinality(EventsOf("node_enter"))
    /\ graph_node_errors = Cardinality(EventsOf("node_error"))
    /\ (EventsOf("node_error") # {}) <=>
          (pc = "__error__" /\ node_error = node_events[Len(node_events)].graph_node)

C39_Witness ==
    /\ pc = "__error__"
    /\ node_error = "executor"
    /\ graph_steps = 3
    /\ graph_node_transitions = 3
    /\ graph_node_errors = 1
    /\ node_events[1] = NodeEvent("node_enter", "context_controller")
    /\ node_events[2] = NodeEvent("node_exit", "context_controller")
    /\ node_events[5] = NodeEvent("node_enter", "executor")
    /\ node_events[6] = NodeEvent("node_error", "executor")

(* ---------------------------------------------------------------------- *)
(* C40: a geocoder failure on a name that is not suspicious                *)
(* ---------------------------------------------------------------------- *)
(* The warnings this validator pass appended.                              *)
NewWarnings ==
    SubSeq(validation_warnings', Len(validation_warnings) + 1, Len(validation_warnings'))

(* The geocoder raised for the place: the pass appended its warning.       *)
GeocodeFailed(field, raw) ==
    \E i \in 1..Len(NewWarnings) : NewWarnings[i] = GeocodeWarning(field, raw)

(* C40: when the geocoder raises for a place whose name is not suspicious,
   the validator appends the warning, asks no question about that place
   and, when it accepts the constraints, has stored the grounding
   {name: raw} for it; this for the origin and for every destination. *)
C40_GeocodeFailureGroundsBestEffort ==
    [][pc = "validator" =>
         /\ (needs_user_input' /\ clarifying_questions' = <<Q_UNCHECKED_ORIGIN>>)
               => _is_suspicious_place_name(constraints.origin)
         /\ (needs_user_input' /\ clarifying_questions' = <<Q_UNCHECKED_DESTINATION>>)
               => /\ NewWarnings # <<>>
                  /\ _is_suspicious_place_name(NewWarnings[Len(NewWarnings)].place)
         /\ ~needs_user_input' =>
               /\ GeocodeFailed("origin", constraints.origin)
                     => grounded_places'.origin = Grounded("name", constraints.origin)
               /\ \A k \in 1..Len(constraints.destinations) :
                     GeocodeFailed("destinations", constraints.destinations[k])
                        => grounded_places'.destinations[k]
                              = Grounded("name", constraints.destinations[k])]_vars

====
